---- MODULE Spec2Model ----
(***************************************************************************)
(* The risk-scoring engine of whistleblower-workbench: the FraudDetector   *)
(* class (train / save / load / score), the two serving routes that cache  *)
(* the model artifact (/api/ml/score and the MA-contracts route) and the   *)
(* artifact file they share with the training pipeline.                    *)
(*                                                                         *)
(* Numbers are fixed point.  Ratio-like features, their thresholds and the *)
(* statistics over them are in hundredths (0.3 is 30, a growth of 2.0 is   *)
(* 200); award amounts are in thousands of dollars, pharma payments in     *)
(* dollars; scores and contributions are integers; a pattern weight        *)
(* count/total is the pair [num, den].                                     *)
(* Factor descriptions (display strings) are not modelled.                 *)
(***************************************************************************)
EXTENDS Integers, Sequences, FiniteSets, TLC

VARIABLES
  file,    \* content of the artifact file fraud-detector-trained.json
  writer,  \* the fs.writeFile in flight, if any
  det,     \* the FraudDetector instances
  detOp,   \* per detector: the last operation, its outcome, the fields before it
  cache,   \* per route: the module-level cached artifact (modelData / trainedModel)
  req,     \* per request: its position inside loadModel and what it holds
  hist,    \* per route: history of loadModel (reads issued, loads completed)
  out,     \* the last Score Result returned, with its inputs
  log,     \* the score calls made so far, oldest first: arguments and result
  recs     \* the record collection the last feature extraction ran on

vars == <<file, writer, det, detOp, cache, req, hist, out, log, recs>>

(***************************************************************************)
(* JavaScript values                                                       *)
(***************************************************************************)
Num(n) == [t |-> "num", n |-> n]
NaN == [t |-> "NaN", n |-> 0]
Null == [t |-> "null", n |-> 0]
Undef == [t |-> "undefined", n |-> 0]
PosInf == [t |-> "Infinity", n |-> 0]
NegInf == [t |-> "-Infinity", n |-> 0]

\* o[k] of a JavaScript object: undefined when the key is absent
Get(o, k) == IF k \in DOMAIN o THEN o[k] ELSE Undef

\* ToNumber: null is 0, undefined is NaN
ToNum(x) == IF x.t = "null" THEN Num(0) ELSE IF x.t = "undefined" THEN NaN ELSE x

\* a < b on numbers that are not NaN
Less(a, b) ==
  CASE a.t = "-Infinity" -> b.t # "-Infinity"
    [] a.t = "Infinity" -> FALSE
    [] OTHER -> b.t = "Infinity" \/ (b.t = "num" /\ a.n < b.n)

\* a > b and a >= b: false as soon as one side is NaN
JGt(a, b) == ToNum(a).t # "NaN" /\ ToNum(b).t # "NaN" /\ Less(ToNum(b), ToNum(a))
JGe(a, b) == ToNum(a).t # "NaN" /\ ToNum(b).t # "NaN" /\ ~Less(ToNum(a), ToNum(b))

\* truthiness of a number-or-missing value
Truthy(x) == x.t \in {"Infinity", "-Infinity"} \/ (x.t = "num" /\ x.n # 0)

\* Math.round(p / q) for q > 0: floor(p/q + 1/2)
RoundDiv(p, q) == (2 * p + q) \div (2 * q)

Min2(a, b) == IF a <= b THEN a ELSE b
Abs(a) == IF a < 0 THEN -a ELSE a

\* a threshold table entry as a JavaScript value
Thr(th, k) == IF k \in DOMAIN th THEN Num(th[k]) ELSE Undef

(***************************************************************************)
(* Threshold tables                                                        *)
(***************************************************************************)
optimizeThresholds ==
  [largeAwardMultiple |-> 300, growthRateAnomaly |-> 200,
   agencyConcentration |-> 80, soleSourceRatio |-> 50,
   billingZScore |-> 200, highComplexityRatio |-> 40,
   pharmaPaymentHigh |-> 50000, pharmaPaymentVeryHigh |-> 100000,
   lowRiskMax |-> 25, mediumRiskMax |-> 50, highRiskMin |-> 50,
   zScoreThreshold |-> 250, isolationThreshold |-> 60]

\* the table the serving routes fall back to when the model has none
RouteDefaultThresholds ==
  [largeAwardMultiple |-> 300, growthRateAnomaly |-> 200,
   agencyConcentration |-> 80, soleSourceRatio |-> 50,
   lowRiskMax |-> 25, mediumRiskMax |-> 50, highRiskMin |-> 50]

(***************************************************************************)
(* Risk factors and partial scores                                         *)
(***************************************************************************)
Factor(type, contribution, severity) ==
  [type |-> type, contribution |-> contribution, severity |-> severity]

NoScore == [score |-> 0, factors |-> <<>>]

\* a factor that is listed but whose contribution is not added to the score
HitUncounted(type, contribution, severity) ==
  [score |-> 0, factors |-> <<Factor(type, contribution, severity)>>]

\* score += contribution; factors.push({...})
Hit(type, contribution, severity) ==
  [score |-> contribution, factors |-> <<Factor(type, contribution, severity)>>]

Plus(a, b) == [score |-> a.score + b.score, factors |-> a.factors \o b.factors]

RECURSIVE InsertDesc(_, _)
InsertDesc(f, s) ==
  IF s = <<>> THEN <<f>>
  ELSE IF Head(s).contribution >= f.contribution
       THEN <<Head(s)>> \o InsertDesc(f, Tail(s))
       ELSE <<f>> \o s

\* factors.sort((a, b) => b.contribution - a.contribution): stable, descending
RECURSIVE SortDesc(_)
SortDesc(s) ==
  IF s = <<>> THEN <<>>
  ELSE InsertDesc(s[Len(s)], SortDesc(SubSeq(s, 1, Len(s) - 1)))

(***************************************************************************)
(* Feature vectors: a function from the feature names present to values    *)
(***************************************************************************)
\* Object.entries(features): the order the extractors insert the keys in
FeatureOrder ==
  <<"totalAwarded", "avgAward", "awardCount", "maxAward", "minAward", "awardStdDev",
    "concentrationIndex", "agencyConcentration", "yearOverYearGrowth",
    "highRiskCategoryRatio", "defenseRatio", "healthcareRatio", "largeAwardRatio",
    "soleSourceRatio", "highComplexityRatio", "avgServicesPerPatient",
    "totalPharmaPayments", "pharmaConcentration", "hasExclusionHistory",
    "relatedPartyExcluded", "upcoding">>

\* the number 1 is OneNum(k) / OneDen(k) in the unit feature k is kept in
OneNum(k) ==
  IF k \in {"awardCount", "totalPharmaPayments", "hasExclusionHistory",
            "relatedPartyExcluded", "upcoding",
            "totalAwarded", "avgAward", "maxAward", "minAward", "awardStdDev"}
  THEN 1 ELSE 100
OneDen(k) ==
  IF k \in {"totalAwarded", "avgAward", "maxAward", "minAward", "awardStdDev"}
  THEN 1000 ELSE 1

\* Object.keys(features).filter(k => features[k] !== null && features[k] !== undefined).length
PresentCount(f) == Cardinality({k \in DOMAIN f : f[k].t \notin {"null", "undefined"}})

(***************************************************************************)
(* Learned patterns                                                        *)
(***************************************************************************)
\* indicator.toLowerCase().replace(/\s+/g, '_') on the indicator phrases used here
IndicatorKey(ind) ==
  CASE ind = "Upcoding" -> "upcoding"
    [] ind = "Sole Source" -> "sole_source"
    [] ind = "Rapid Growth" -> "rapid_growth"
    [] ind = "largeAwardRatio" -> "largeawardratio"
    [] OTHER -> ind

\* factor.weight > 0.3, Math.round(factor.weight * k)
WeightAbove30(w) == 10 * w.num > 3 * w.den
WeightTimes(w, k) == RoundDiv(w.num * k, w.den)

(***************************************************************************)
(* FraudDetector: a function from the instance's defined fields to values  *)
(***************************************************************************)
DetFields == {"trained", "featureStats", "fraudPatterns", "thresholds", "modelVersion"}

NewDetector ==
  [trained |-> FALSE, featureStats |-> <<>>, fraudPatterns |-> <<>>,
   thresholds |-> <<>>, modelVersion |-> "1.0.0"]

Has(d, k) == k \in DOMAIN d
IsTrained(d) == Has(d, "trained") /\ d.trained

Raised == [raised |-> TRUE, score |-> 0, riskLevel |-> "none", factors |-> <<>>, confidence |-> 0]
Returned(score, level, factors, confidence) ==
  [raised |-> FALSE, score |-> score, riskLevel |-> level, factors |-> factors,
   confidence |-> confidence]

\* this.thresholds is read: a TypeError when it is undefined
getRiskLevel(d, score) ==
  IF JGe(Num(score), Thr(d.thresholds, "highRiskMin")) THEN "High"
  ELSE IF JGe(Num(score), Thr(d.thresholds, "lowRiskMax")) THEN "Medium"
  ELSE "Low"

calculateConfidence(d, f) ==
  RoundDiv((IF IsTrained(d) THEN 85 ELSE 70) * Min2(PresentCount(f), 10), 10)

\* |z| = ZNum / ZDen for one feature: (value - stats.mean) / (stats.std || 1)
ZDefined(v, st) == ToNum(v).t = "num" /\ ToNum(Get(st, "mean")).t = "num"
ZNum(k, v, st) ==
  Abs(ToNum(v).n - ToNum(Get(st, "mean")).n)
    * (IF Truthy(Get(st, "std")) THEN 1 ELSE OneDen(k))
ZDen(k, st) == IF Truthy(Get(st, "std")) THEN Abs(Get(st, "std").n) ELSE OneNum(k)

\* one pass of the z-score loop body, with the cutoff in hundredths (or undefined)
AnomalyOf(k, v, st, cutoff) ==
  IF ZDefined(v, st) /\ cutoff.t = "num" /\ ZNum(k, v, st) * 100 > cutoff.n * ZDen(k, st)
  THEN Hit("STATISTICAL_ANOMALY", Min2(RoundDiv(ZNum(k, v, st) * 5, ZDen(k, st)), 15),
           IF ZNum(k, v, st) > 3 * ZDen(k, st) THEN "high" ELSE "medium")
  ELSE NoScore

\* typeof value === 'number' holds of a present number (NaN included)
NumericKeys(f) == {k \in DOMAIN f : f[k].t \in {"num", "NaN", "Infinity", "-Infinity"}}

RECURSIVE AnomalyLoop(_, _, _, _)
AnomalyLoop(stats, f, cutoff, i) ==
  IF i > Len(FeatureOrder) THEN NoScore
  ELSE LET k == FeatureOrder[i]
           here == IF k \in NumericKeys(f) /\ k \in DOMAIN stats
                   THEN AnomalyOf(k, f[k], stats[k], cutoff)
                   ELSE NoScore
       IN Plus(here, AnomalyLoop(stats, f, cutoff, i + 1))

detectAnomalies(d, f) ==
  AnomalyLoop(d.featureStats, f, Thr(d.thresholds, "zScoreThreshold"), 1)

\* the loop over commonFactors; a feature matches when it is truthy and above
\* `floor2`/2 (0 in the class, 0.5 in the routes)
RECURSIVE PatternLoop(_, _, _, _, _)
PatternLoop(cf, f, mult, floor2, i) ==
  IF i > Len(cf) THEN NoScore
  ELSE LET key == IndicatorKey(cf[i].indicator)
           v == Get(f, key)
           here == IF Truthy(v) /\ 2 * v.n * OneDen(key) > floor2 * OneNum(key)
                   THEN Hit(IF mult = 20 THEN "FRAUD_PATTERN_MATCH" ELSE "PATTERN_MATCH",
                            WeightTimes(cf[i].weight, mult),
                            IF WeightAbove30(cf[i].weight) THEN "high" ELSE "medium")
                   ELSE NoScore
       IN Plus(here, PatternLoop(cf, f, mult, floor2, i + 1))

matchFraudPatterns(d, f) ==
  IF Has(d.fraudPatterns, "commonFactors")
  THEN PatternLoop(d.fraudPatterns.commonFactors, f, 20, 0, 1)
  ELSE NoScore

applyContractorRules(d, f) == NoScore

(***************************************************************************)
(* The contractor domain rules, as written three times in the source: in   *)
(* defaultContractorScoring (fixed cut-offs) and in the two routes (three  *)
(* cut-offs read from the threshold table)                                 *)
(***************************************************************************)
Sev15(c) == IF c > 15 THEN "high" ELSE "medium"

LargeAwardRule(f) ==
  LET v == Get(f, "largeAwardRatio") IN
  IF JGt(v, Num(30))
  THEN Hit("LARGE_AWARD_CONCENTRATION", RoundDiv(v.n * 30, 100), Sev15(RoundDiv(v.n * 30, 100)))
  ELSE NoScore

AgencyRule(f, cut) ==
  IF JGt(Get(f, "agencyConcentration"), cut) THEN Hit("AGENCY_CONCENTRATION", 10, "low")
  ELSE NoScore

SoleSourceRule(f, cut) ==
  LET v == Get(f, "soleSourceRatio") IN
  IF JGt(v, cut) THEN Hit("HIGH_SOLE_SOURCE", RoundDiv(v.n * 25, 100), "medium") ELSE NoScore

GrowthRule(f, cut) ==
  LET v == Get(f, "yearOverYearGrowth")
      c == Min2(RoundDiv((v.n - 100) * 15, 100), 25) IN
  IF JGt(v, cut) THEN Hit("RAPID_GROWTH", c, Sev15(c)) ELSE NoScore

HighRiskCategoryRule(f, severity) ==
  LET v == Get(f, "highRiskCategoryRatio") IN
  IF JGt(v, Num(30)) THEN Hit("HIGH_RISK_CATEGORY", RoundDiv(v.n * 20, 100), severity)
  ELSE NoScore

DefenseRule(f) ==
  IF JGt(Get(f, "defenseRatio"), Num(70)) THEN Hit("DEFENSE_CONCENTRATION", 5, "low")
  ELSE NoScore

HealthcareContractsRule(f) ==
  IF JGt(Get(f, "healthcareRatio"), Num(50)) THEN Hit("HEALTHCARE_CONCENTRATION", 10, "medium")
  ELSE NoScore

\* score = Math.min(Math.round(score), 100)
CapScore(score) == Min2(score, 100)

(***************************************************************************)
(* FraudDetector scoring                                                   *)
(***************************************************************************)
defaultContractorScoring(d, f) ==
  LET sum == Plus(LargeAwardRule(f),
             Plus(AgencyRule(f, Num(80)),
             Plus(SoleSourceRule(f, Num(50)),
             Plus(GrowthRule(f, Num(200)),
             Plus(HighRiskCategoryRule(f, "low"), DefenseRule(f))))))
      score == CapScore(sum.score)
  IN IF ~Has(d, "thresholds") THEN Raised
     ELSE Returned(score, getRiskLevel(d, score), sum.factors, 70)

scoreContractor(d, f) ==
  IF ~IsTrained(d) /\ ~Has(d, "featureStats") THEN Raised
  ELSE IF ~IsTrained(d) /\ DOMAIN d.featureStats = {} THEN defaultContractorScoring(d, f)
  ELSE IF ~Has(d, "featureStats") /\ NumericKeys(f) # {} THEN Raised
  ELSE IF ~Has(d, "fraudPatterns") \/ ~Has(d, "thresholds") THEN Raised
  ELSE LET anomalyScore == IF Has(d, "featureStats") THEN detectAnomalies(d, f) ELSE NoScore
           sum == Plus(anomalyScore,
                  Plus(matchFraudPatterns(d, f), applyContractorRules(d, f)))
           score == CapScore(sum.score)
       IN Returned(score, getRiskLevel(d, score), SortDesc(sum.factors),
                   calculateConfidence(d, f))

HighComplexityRule(d, f) ==
  LET v == Get(f, "highComplexityRatio")
      c == RoundDiv((v.n - 20) * 40, 100) IN
  IF JGt(v, Thr(d.thresholds, "highComplexityRatio"))
  THEN Hit("HIGH_COMPLEXITY_BILLING", c, Sev15(c)) ELSE NoScore

PharmaPaymentsRule(d, f) ==
  LET v == Get(f, "totalPharmaPayments")
      c == IF JGt(v, Thr(d.thresholds, "pharmaPaymentVeryHigh")) THEN 25 ELSE 15 IN
  IF JGt(v, Thr(d.thresholds, "pharmaPaymentHigh"))
  THEN Hit("HIGH_PHARMA_PAYMENTS", c, Sev15(c)) ELSE NoScore

PharmaConcentrationRule(f) ==
  IF JGt(Get(f, "pharmaConcentration"), Num(70)) THEN Hit("PHARMA_CONCENTRATION", 10, "medium")
  ELSE NoScore

ExclusionRule(f) ==
  IF Truthy(Get(f, "hasExclusionHistory")) THEN Hit("PRIOR_EXCLUSION", 30, "high")
  ELSE NoScore

RelatedPartyRule(f) ==
  IF Truthy(Get(f, "relatedPartyExcluded")) THEN Hit("RELATED_PARTY_EXCLUDED", 20, "high")
  ELSE NoScore

ServiceVolumeRule(f) ==
  IF JGt(Get(f, "avgServicesPerPatient"), Num(1000)) THEN Hit("HIGH_SERVICE_VOLUME", 15, "medium")
  ELSE NoScore

scoreHealthcareProvider(d, f) ==
  IF ~Has(d, "thresholds") THEN Raised
  ELSE LET sum == Plus(HighComplexityRule(d, f),
                  Plus(PharmaPaymentsRule(d, f),
                  Plus(PharmaConcentrationRule(f),
                  Plus(ExclusionRule(f),
                  Plus(RelatedPartyRule(f), ServiceVolumeRule(f))))))
           score == CapScore(sum.score)
       IN Returned(score, getRiskLevel(d, score), sum.factors, calculateConfidence(d, f))

(***************************************************************************)
(* The serving routes.  A model is what loadModel returned: NullModel, or  *)
(* Obj(doc) with doc the parsed artifact, a function from the keys the     *)
(* document has to their values                                            *)
(***************************************************************************)
NullModel == [k |-> "null", v |-> <<>>]
Obj(doc) == [k |-> "obj", v |-> doc]

\* model?.thresholds || { ...defaults }
ModelThresholds(m) ==
  IF m.k = "obj" /\ Has(m.v, "thresholds") THEN m.v.thresholds ELSE RouteDefaultThresholds

\* a confidence that decays with the time elapsed since the process started
ModelConfidenceAged(m) ==
  IF m.k = "obj" /\ Has(m.v, "trained") /\ m.v.trained THEN 85 - hist.saves ELSE 70

\* model?.trained ? 0.85 : 0.70
ModelConfidence(m) == IF m.k = "obj" /\ Has(m.v, "trained") /\ m.v.trained THEN 85 ELSE 70

\* the rules both routes share, in source order
RouteRules(f, th) ==
  Plus(LargeAwardRule(f),
  Plus(AgencyRule(f, Thr(th, "agencyConcentration")),
  Plus(SoleSourceRule(f, Thr(th, "soleSourceRatio")),
  Plus(GrowthRule(f, Thr(th, "growthRateAnomaly")),
  Plus(HighRiskCategoryRule(f, "medium"),
  Plus(DefenseRule(f), HealthcareContractsRule(f)))))))

\* model.fraudPatterns.commonFactors.slice(0, 5), when the model has them
RoutePatterns(f, m) ==
  IF m.k = "obj" /\ Has(m.v, "fraudPatterns") /\ Has(m.v.fraudPatterns, "commonFactors")
  THEN LET cf == m.v.fraudPatterns.commonFactors
       IN PatternLoop(SubSeq(cf, 1, Min2(Len(cf), 5)), f, 15, 1, 1)
  ELSE NoScore

\* a z-score block that falls back to a built-in profile when the model has none
RouteAnomaliesBuiltIn(f, m) ==
  AnomalyLoop(IF m.k = "obj" /\ Has(m.v, "featureStats") THEN m.v.featureStats
              ELSE [soleSourceRatio |-> [mean |-> Num(25), std |-> Num(25)]],
              f, Num(250), 1)

\* the z-score block of scoreWithModel, with its fixed cut-off 2.5
RouteAnomalies(f, m) ==
  IF m.k = "obj" /\ Has(m.v, "featureStats")
  THEN AnomalyLoop(m.v.featureStats, f, Num(250), 1)
  ELSE NoScore

RouteLevel(th, score) ==
  IF JGe(Num(score), Thr(th, "highRiskMin")) THEN "High"
  ELSE IF JGe(Num(score), Thr(th, "lowRiskMax")) THEN "Medium"
  ELSE "Low"

\* /api/ml/score
routeScoreContractor(f, m) ==
  LET th == ModelThresholds(m)
      sum == Plus(RouteRules(f, th), RoutePatterns(f, m))
      score == CapScore(sum.score)
  IN Returned(score, RouteLevel(th, score), SortDesc(sum.factors), ModelConfidence(m))

\* MA contracts
scoreWithModel(f, m) ==
  LET th == ModelThresholds(m)
      sum == Plus(RouteRules(f, th), Plus(RouteAnomalies(f, m), RoutePatterns(f, m)))
      score == CapScore(sum.score)
  IN Returned(score, RouteLevel(th, score), SortDesc(sum.factors), ModelConfidence(m))

\* the per-award part of analyzeContractWithML: `amount` is the award's amount
\* in thousands of dollars, `f` the features of the recipient's contracts
analyzeContractWithML(amount, f, m) ==
  LET mlScore == scoreWithModel(f, m)
      extra == IF amount > 100000 THEN <<Factor("EXTREMELY_LARGE_AWARD", 20, "high")>>
               ELSE IF amount > 10000 THEN <<Factor("VERY_LARGE_AWARD", 10, "medium")>>
               ELSE <<>>
      score == IF amount > 100000 THEN Min2(mlScore.score + 20, 100)
               ELSE IF amount > 10000 THEN Min2(mlScore.score + 10, 100)
               ELSE mlScore.score
  IN Returned(score,
              IF score >= 50 THEN "High" ELSE IF score >= 25 THEN "Medium" ELSE "Low",
              mlScore.factors \o extra, mlScore.confidence)

(***************************************************************************)
(* Training                                                                *)
(***************************************************************************)
RECURSIVE SqrtSearch(_, _, _)
SqrtSearch(n, lo, hi) ==
  IF lo >= hi THEN lo
  ELSE LET mid == (lo + hi + 1) \div 2
       IN IF mid * mid <= n THEN SqrtSearch(n, mid, hi) ELSE SqrtSearch(n, lo, mid - 1)

\* Math.sqrt, to the fixed-point grid
Sqrt(n) == SqrtSearch(n, 0, Min2(n, 40000))

RECURSIVE SumSeq(_)
SumSeq(s) == IF s = <<>> THEN 0 ELSE Head(s) + SumSeq(Tail(s))

\* featureValues[key]: the numeric values of `key`, in record order
RECURSIVE ValuesOf(_, _)
ValuesOf(data, k) ==
  IF data = <<>> THEN <<>>
  ELSE (IF k \in NumericKeys(Head(data)) THEN <<Head(data)[k]>> ELSE <<>>)
       \o ValuesOf(Tail(data), k)

\* [...values].sort((a, b) => a - b); a comparison with NaN yields NaN, which
\* sort treats as "equal"
RECURSIVE InsertAsc(_, _)
InsertAsc(x, s) ==
  IF s = <<>> THEN <<x>>
  ELSE IF x.t = "num" /\ Head(s).t = "num" /\ Head(s).n > x.n
       THEN <<x>> \o s
       ELSE <<Head(s)>> \o InsertAsc(x, Tail(s))

RECURSIVE SortAsc(_)
SortAsc(s) ==
  IF s = <<>> THEN <<>>
  ELSE InsertAsc(s[Len(s)], SortAsc(SubSeq(s, 1, Len(s) - 1)))

StatsOf(values) ==
  LET n == Len(values)
      finite == \A i \in 1..n : values[i].t = "num"
      nums == [i \in 1..n |-> values[i].n]
      mean == RoundDiv(SumSeq(nums), n)
      variance == RoundDiv(SumSeq([i \in 1..n |-> (nums[i] - mean) * (nums[i] - mean)]), n)
      sorted == SortAsc(values)
  IN [mean |-> IF finite THEN Num(mean) ELSE NaN,
      std |-> IF finite THEN Num(Sqrt(variance)) ELSE NaN,
      min |-> sorted[1],
      max |-> sorted[n],
      median |-> sorted[(n \div 2) + 1],
      p25 |-> sorted[(n \div 4) + 1],
      p75 |-> sorted[((3 * n) \div 4) + 1],
      p90 |-> sorted[((9 * n) \div 10) + 1],
      p95 |-> sorted[((19 * n) \div 20) + 1],
      count |-> Num(n)]

calculateFeatureStats(data) ==
  LET keys == UNION {NumericKeys(data[i]) : i \in 1..Len(data)}
  IN [k \in keys |-> StatsOf(ValuesOf(data, k))]

\* all the entries of the cases' lists under `field`, in case order
RECURSIVE Flatten(_, _)
Flatten(cases, field) ==
  IF cases = <<>> THEN <<>>
  ELSE Get(Head(cases), field) \o Flatten(Tail(cases), field)

\* the distinct entries of a sequence, in first-seen order (an object's key order)
RECURSIVE FirstSeen(_)
FirstSeen(s) ==
  IF s = <<>> THEN <<>>
  ELSE LET rest == FirstSeen(SubSeq(s, 1, Len(s) - 1))
       IN IF \E i \in 1..Len(rest) : rest[i] = s[Len(s)] THEN rest
          ELSE Append(rest, s[Len(s)])

Count(s, x) == Cardinality({i \in 1..Len(s) : s[i] = x})

\* Object.entries(indicators).sort((a, b) => b[1] - a[1]): stable, by count descending
RECURSIVE InsertByCount(_, _)
InsertByCount(e, s) ==
  IF s = <<>> THEN <<e>>
  ELSE IF Head(s).count >= e.count THEN <<Head(s)>> \o InsertByCount(e, Tail(s))
       ELSE <<e>> \o s

\* Object.entries(indicators) left in insertion order, not ranked
EntriesAsSeen(s) == s

RECURSIVE SortByCount(_)
SortByCount(s) ==
  IF s = <<>> THEN <<>>
  ELSE InsertByCount(s[Len(s)], SortByCount(SubSeq(s, 1, Len(s) - 1)))

\* fc.amount || 0, fc.industry || 'unknown'
AmountOf(fc) == IF Has(fc, "amount") THEN fc.amount ELSE 0
IndustryOf(fc) == IF Has(fc, "industry") THEN fc.industry ELSE "unknown"
TypesOf(fc) == IF Has(fc, "fraud_type") THEN fc.fraud_type ELSE <<>>
IndicatorsOf(fc) == IF Has(fc, "indicators") THEN fc.indicators ELSE <<>>

learnFraudPatterns(knownFraudCases) ==
  LET n == Len(knownFraudCases)
      types == [i \in 1..n |-> TypesOf(knownFraudCases[i])]
      allTypes == UNION {{types[i][j] : j \in 1..Len(types[i])} : i \in 1..n}
      typeCount(ft) == SumSeq([i \in 1..n |-> Count(types[i], ft)])
      typeTotal(ft) == SumSeq([i \in 1..n |-> Count(types[i], ft) * AmountOf(knownFraudCases[i])])
      industries == {IndustryOf(knownFraudCases[i]) : i \in 1..n}
      inInd(x) == {i \in 1..n : IndustryOf(knownFraudCases[i]) = x}
      allInd == Flatten([i \in 1..n |-> [l |-> IndicatorsOf(knownFraudCases[i])]], "l")
      order == FirstSeen(allInd)
      entries == [i \in 1..Len(order) |-> [indicator |-> order[i], count |-> Count(allInd, order[i])]]
      ranked == SortByCount(entries)
      top == SubSeq(ranked, 1, Min2(Len(ranked), 20))
  IN [byFraudType |->
        [ft \in allTypes |->
           [count |-> Num(typeCount(ft)), totalAmount |-> Num(typeTotal(ft)),
            avgAmount |-> Num(RoundDiv(typeTotal(ft), typeCount(ft))), indicators |-> <<>>]],
      byIndustry |->
        [x \in industries |->
           [count |-> Num(Cardinality(inInd(x))),
            totalAmount |-> Num(SumSeq([i \in 1..n |->
                               IF i \in inInd(x) THEN AmountOf(knownFraudCases[i]) ELSE 0])),
            fraudTypes |-> <<>>]],
      indicators |-> [x \in {order[i] : i \in 1..Len(order)} |-> Num(Count(allInd, x))],
      commonFactors |->
        [i \in 1..Len(top) |->
           [indicator |-> top[i].indicator, count |-> top[i].count,
            weight |-> [num |-> top[i].count, den |-> n]]]]

\* a train that refuses an empty list of labeled cases and leaves the instance as it was
trainRequiringCases(d, trainingData, knownFraudCases) ==
  IF knownFraudCases = <<>> THEN d
  ELSE [k \in DOMAIN d \cup {"featureStats", "fraudPatterns", "thresholds", "trained"} |->
          CASE k = "featureStats" -> calculateFeatureStats(trainingData)
            [] k = "fraudPatterns" -> [byFraudType |-> <<>>, byIndustry |-> <<>>,
                                       indicators |-> <<>>, commonFactors |-> <<>>]
            [] k = "thresholds" -> optimizeThresholds
            [] k = "trained" -> TRUE
            [] OTHER -> d[k]]

\* train(trainingData, knownFraudCases): the detector afterwards
train(d, trainingData, knownFraudCases) ==
  [k \in DOMAIN d \cup {"featureStats", "fraudPatterns", "thresholds", "trained"} |->
     CASE k = "featureStats" -> calculateFeatureStats(trainingData)
       [] k = "fraudPatterns" -> learnFraudPatterns(knownFraudCases)
       [] k = "thresholds" -> optimizeThresholds
       [] k = "trained" -> TRUE
       [] OTHER -> d[k]]

(***************************************************************************)
(* Training-path feature extraction.  An award is                          *)
(*   [amount |-> the 'Award Amount' field as a value (Undef: missing or    *)
(*               not a number), in thousands of dollars,                   *)
(*    agency |-> the 'Awarding Agency' name ("" when missing),             *)
(*    year |-> the first four characters of 'Start Date' (0: no date),     *)
(*    marks |-> the marker phrases its lower-cased description and agency  *)
(*              name contain]                                              *)
(***************************************************************************)
\* parseFloat(a['Award Amount']) || 0
AmountOf1(a) == IF a.amount.t = "num" THEN a.amount.n ELSE 0

Amounts(awards) == [i \in 1..Len(awards) |-> AmountOf1(awards[i])]

RECURSIVE MaxSeq(_)
MaxSeq(s) == IF Len(s) = 1 THEN s[1] ELSE LET m == MaxSeq(Tail(s)) IN IF s[1] >= m THEN s[1] ELSE m
RECURSIVE MinSeq(_)
MinSeq(s) == IF Len(s) = 1 THEN s[1] ELSE LET m == MinSeq(Tail(s)) IN IF s[1] <= m THEN s[1] ELSE m

calculateStdDev(values) ==
  LET n == Len(values)
      mean == RoundDiv(SumSeq(values), n)
  IN IF n = 0 THEN Num(0)
     ELSE Num(Sqrt(RoundDiv(SumSeq([i \in 1..n |-> (values[i] - mean) * (values[i] - mean)]), n)))

\* a['Awarding Agency'] || 'Unknown'
AgencyName(a) == IF a.agency = "" THEN "Unknown" ELSE a.agency

\* Math.max(...Object.values(agencyCounts)) / awards.length
MaxAgencyShare(awards) ==
  LET n == Len(awards)
      cnt(g) == Cardinality({i \in 1..n : AgencyName(awards[i]) = g})
  IN IF n = 0 THEN NegInf
     ELSE Num(RoundDiv(100 * MaxSeq([i \in 1..n |-> cnt(AgencyName(awards[i]))]), n))

\* groupByYear: the total per year, over the awards that have a date
YearsOf(awards) == {awards[i].year : i \in {j \in 1..Len(awards) : awards[j].year # 0}}
YearTotal(awards, y) ==
  SumSeq([i \in 1..Len(awards) |-> IF awards[i].year = y THEN AmountOf1(awards[i]) ELSE 0])

\* lastYear / prevYear over the two latest years, with
\* lastYear = byYear[..] || 0 and prevYear = byYear[..] || 1 (one dollar)
LastOverPrev(awards) ==
  LET years == YearsOf(awards)
      last == CHOOSE y \in years : \A z \in years : z <= y
      prev == CHOOSE y \in years \ {last} : \A z \in years \ {last} : z <= y
  IN IF YearTotal(awards, prev) = 0
     THEN Num(YearTotal(awards, last) * 1000 * 100)
     ELSE Num(RoundDiv(YearTotal(awards, last) * 100, YearTotal(awards, prev)))

calculateGrowthRate(awards) ==
  IF Cardinality(YearsOf(awards)) < 2 THEN Num(0) ELSE LastOverPrev(awards)

\* awards.filter(pred).length / awards.length
\* (matching: the positions of the awards the filter keeps)
RatioOf(awards, matching) ==
  LET n == Len(awards)
  IN IF n = 0 THEN NaN
     ELSE Num(RoundDiv(100 * Cardinality(matching), n))

IsSoleSource(a) == "sole source" \in a.marks
IsHighRiskTraining(a) ==
  a.marks \cap {"consulting", "advisory", "professional services", "it services",
                "software", "support", "emergency"} # {}
IsDefense(a) == a.marks \cap {"defense", "army", "navy", "air force"} # {}

extractContractorFeatures(awards) ==
  LET n == Len(awards)
      amounts == Amounts(awards)
      totalAwarded == SumSeq(amounts)
      \* amounts.map(a => a / totalAwarded), then the sum of the squares
      concentration ==
        IF n = 0 THEN Num(0)
        ELSE IF totalAwarded = 0 THEN NaN
        ELSE Num(RoundDiv(100 * SumSeq([i \in 1..n |-> amounts[i] * amounts[i]]),
                          totalAwarded * totalAwarded))
      \* amounts.filter(a => a > avgAward * 3).length / amounts.length
      large ==
        IF n = 0 THEN NaN
        ELSE Num(RoundDiv(100 * Cardinality({i \in 1..n : amounts[i] * n > 3 * totalAwarded}), n))
  IN [totalAwarded |-> Num(totalAwarded),
      avgAward |-> IF n = 0 THEN Num(0) ELSE Num(RoundDiv(totalAwarded, n)),
      awardCount |-> Num(n),
      maxAward |-> IF n = 0 THEN NegInf ELSE Num(MaxSeq(amounts)),
      minAward |-> IF n = 0 THEN PosInf ELSE Num(MinSeq(amounts)),
      awardStdDev |-> calculateStdDev(amounts),
      concentrationIndex |-> concentration,
      agencyConcentration |-> MaxAgencyShare(awards),
      yearOverYearGrowth |-> calculateGrowthRate(awards),
      soleSourceRatio |-> RatioOf(awards, {i \in 1..Len(awards) : IsSoleSource(awards[i])}),
      highRiskCategoryRatio |-> RatioOf(awards, {i \in 1..Len(awards) : IsHighRiskTraining(awards[i])}),
      defenseRatio |-> RatioOf(awards, {i \in 1..Len(awards) : IsDefense(awards[i])}),
      largeAwardRatio |-> large]

(***************************************************************************)
(* The artifact file and JSON                                              *)
(***************************************************************************)
\* the file's content: absent, a truncated or half-written text, a text that is
\* not JSON, or the text of a JSON document (held as the value it parses to)
Missing == [k |-> "missing", v |-> <<>>]
Partial == [k |-> "partial", v |-> <<>>]
Garbage == [k |-> "garbage", v |-> <<>>]
Json(doc) == [k |-> "json", v |-> doc]

\* JSON.stringify writes NaN and the infinities as null
JsonNum(x) == IF x.t \in {"NaN", "Infinity", "-Infinity"} THEN Null ELSE x

JsonStats(fs) == [k \in DOMAIN fs |-> [x \in DOMAIN fs[k] |-> JsonNum(fs[k][x])]]

JsonPatterns(fp) ==
  [k \in DOMAIN fp |->
     IF k = "commonFactors" THEN fp[k]
     ELSE IF k = "indicators" THEN [x \in DOMAIN fp[k] |-> JsonNum(fp[k][x])]
     ELSE [x \in DOMAIN fp[k] |->
             [y \in DOMAIN fp[k][x] |->
                IF y \in {"indicators", "fraudTypes"} THEN fp[k][x][y]
                ELSE JsonNum(fp[k][x][y])]]]

\* the document save() writes: JSON.parse(JSON.stringify(modelData)); a field
\* of the detector that is undefined leaves no key
DocKey(field) == IF field = "modelVersion" THEN "version" ELSE field
FieldOf(key) == IF key = "version" THEN "modelVersion" ELSE key

saveDoc(d, now) ==
  [k \in {DocKey(x) : x \in DOMAIN d \cap DetFields} \cup {"savedAt"} |->
     CASE k = "savedAt" -> now
       [] k = "featureStats" -> JsonStats(d.featureStats)
       [] k = "fraudPatterns" -> JsonPatterns(d.fraudPatterns)
       [] OTHER -> d[FieldOf(k)]]

\* a load that assigns four fields and keeps the instance's own thresholds
loadKeepingThresholds(d, doc) ==
  [x \in {y \in DetFields : y # "thresholds" /\ DocKey(y) \in DOMAIN doc}
          \cup ({"thresholds"} \cap DOMAIN d) |->
     IF x = "thresholds" THEN d.thresholds ELSE doc[DocKey(x)]]

\* load(): the five assignments from the parsed document
load(d, doc) ==
  [x \in {y \in DetFields : DocKey(y) \in DOMAIN doc} |-> doc[DocKey(x)]]

(***************************************************************************)
(* Inputs                                                                  *)
(***************************************************************************)
NDet == 2          \* FraudDetector instances
NReq == 2          \* requests in flight
MaxSaves == 1      \* save() calls
MaxTrains == 1     \* train() calls
MaxCalls == 3      \* loadModel() calls
MaxLoads == 1      \* FraudDetector.load() calls
MaxRecipients == 1 \* recipients in the training data
MaxCases == 1      \* labeled fraud cases

DetIds == 1..NDet
ReqIds == 1..NReq
Routes == {"score", "ma"}

\* the feature vector with the keys whose value is given
Compact(f) == [k \in {x \in DOMAIN f : f[x].t # "undefined"} |-> f[k]]

ContractorVectors ==
  {Compact([largeAwardRatio |-> a, agencyConcentration |-> b, soleSourceRatio |-> c,
            yearOverYearGrowth |-> g, highRiskCategoryRatio |-> h, defenseRatio |-> e,
            healthcareRatio |-> m, upcoding |-> u]) :
     a \in {Undef, Num(40), Num(100)}, b \in {Undef, Num(90)},
     c \in {Undef, Num(40), Num(100)}, g \in {Undef, Num(60), Num(300)},
     h \in {Undef, Num(100)}, e \in {Undef, Num(100)}, m \in {Undef, Num(100)},
     u \in {Undef, Num(1)}}

HealthcareVectors ==
  {Compact([highComplexityRatio |-> a, totalPharmaPayments |-> b, pharmaConcentration |-> c,
            hasExclusionHistory |-> x, relatedPartyExcluded |-> r,
            avgServicesPerPatient |-> v]) :
     a \in {Undef, Num(15), Num(100)}, b \in {Undef, Num(60000), Num(150000)},
     c \in {Undef, Num(90)}, x \in {Undef, Num(1)}, r \in {Undef, Num(1)},
     v \in {Undef, Num(1500)}}

\* award amounts in thousands of dollars, around the two escalator cut-offs
AwardAmounts == {5000, 50000, 150000}

\* awards of the training data
AwardSmall == [amount |-> Num(50), agency |-> "HHS", year |-> 2022, marks |-> {"health", "consulting"}]
AwardLarge == [amount |-> Num(2000), agency |-> "DoD", year |-> 2023, marks |-> {"defense", "sole source"}]
AwardZero == [amount |-> Num(0), agency |-> "DoD", year |-> 2023, marks |-> {"defense"}]

\* one recipient's awards (extractAllFeatures groups the awards by recipient,
\* so a group is never empty)
AwardGroups == {<<AwardSmall, AwardLarge>>, <<AwardSmall, AwardSmall, AwardSmall>>, <<AwardZero>>}

SeqsUpTo(S, n) == UNION {[1..m -> S] : m \in 0..n}

\* generateSampleExclusionData: the features of the sample exclusion records
SampleExclusions ==
  <<[specialtyRisk |-> Num(300), exclusionSeverity |-> Num(500)],
    [specialtyRisk |-> Num(300), exclusionSeverity |-> Num(500)],
    [specialtyRisk |-> Num(300), exclusionSeverity |-> Num(300)],
    [specialtyRisk |-> Num(200), exclusionSeverity |-> Num(500)],
    [specialtyRisk |-> Num(300), exclusionSeverity |-> Num(500)]>>

\* extractAllFeatures: one vector per recipient, then one per exclusion record
extractAllFeatures(groups, exclusions) ==
  [i \in 1..Len(groups) |-> extractContractorFeatures(groups[i])] \o exclusions

FraudCases ==
  {[fraud_type |-> <<"upcoding">>, industry |-> "healthcare", amount |-> 500,
    indicators |-> <<"Upcoding", "Rapid Growth">>],
   [fraud_type |-> <<"overbilling", "kickbacks">>, amount |-> 200,
    indicators |-> <<"Sole Source", "Upcoding">>]}

TrainingInputs ==
  {[groups |-> g, cases |-> c] :
     g \in SeqsUpTo(AwardGroups, MaxRecipients), c \in SeqsUpTo(FraudCases, MaxCases)}

\* an artifact as train + save produce it from a fixed sample
SampleInput ==
  [groups |-> <<<<AwardSmall, AwardLarge>>, <<AwardSmall, AwardSmall, AwardSmall>>>>,
   cases |-> [i \in 1..2 |-> CHOOSE c \in FraudCases :
                 (i = 1) <=> (Has(c, "industry"))]]

TrainedSample ==
  train(NewDetector, extractAllFeatures(SampleInput.groups, SampleExclusions), SampleInput.cases)

\* artifacts put in place by hand or by another tool: one with some of the
\* thresholds overridden, one that is an empty JSON object
OverrideDoc ==
  [saveDoc(TrainedSample, 0) EXCEPT
     !.thresholds = [optimizeThresholds EXCEPT
                       !.growthRateAnomaly = 50, !.soleSourceRatio = 30,
                       !.highComplexityRatio = 10,
                       !.lowRiskMax = 30, !.highRiskMin = 60]]
EmptyDoc == <<>>

(***************************************************************************)
(* State                                                                   *)
(***************************************************************************)
WriterIdle == [pc |-> "idle", doc |-> <<>>, by |-> 0]

\* a detector's last operation: "new", "train", "save" or "load"; its status
\* "ok", "pending" or "raised"; the instance's fields when it began; for a
\* load, the in-memory detector whose save wrote the document read (if any:
\* hist.fileSrc keeps, for the file's content, the detector that saved it)
OpRecord(op, status, before, src) ==
  [op |-> op, status |-> status, before |-> before, src |-> src]

NoSource == [known |-> FALSE, d |-> <<>>]
Source(d) == [known |-> TRUE, d |-> d]

\* hist.foreign: some load read a document that no save() had written
\* a request: its route, where it is in loadModel ("idle", "reading": readFile
\* issued, "resume": the content is read, "done": loadModel returned), the
\* content read, the model returned; `late`: a load on its route had completed
\* when it called; `duringSave`: a write of the file was under way when it read
IdleRequest ==
  [route |-> "score", pc |-> "idle", data |-> Missing, ret |-> NullModel,
   late |-> FALSE, duringSave |-> FALSE]

NoHistory ==
  [firstReads |-> [r \in Routes |-> 0], completed |-> [r \in Routes |-> FALSE],
   calls |-> 0, saves |-> 0, trains |-> 0, loads |-> 0, fileSrc |-> NoSource,
   foreign |-> FALSE]

\* no extraction yet; otherwise the kind of entity and the awards, or the
\* provider with its billing and payment records
NoRecords == [kind |-> "none"]

NoOut ==
  [path |-> "none", f |-> <<>>, amount |-> 0, th |-> <<>>, fresh |-> FALSE,
   res |-> Returned(0, "Low", <<>>, 0)]

\* a Score Result with what it was computed from: the feature vector, the
\* award amount (per-award analysis), the threshold table in effect, and
\* whether the model was the untrained default
Result(path, f, amount, th, fresh, res) ==
  [path |-> path, f |-> f, amount |-> amount, th |-> th, fresh |-> fresh, res |-> res]

DetTable(d) == IF Has(d, "thresholds") THEN d.thresholds ELSE <<>>

(***************************************************************************)
(* Scoring calls: one score call on a detector or a cached model           *)
(***************************************************************************)
ScoreContractorCall(i) ==
  /\ out.path = "none"
  /\ \E f \in ContractorVectors :
       out' = Result("scoreContractor", f, 0, DetTable(det[i]), det[i] = NewDetector,
                     scoreContractor(det[i], f))
  /\ UNCHANGED <<file, writer, det, detOp, cache, req, hist, log, recs>>

DefaultContractorScoringCall(i) ==
  /\ out.path = "none"
  /\ \E f \in ContractorVectors :
       out' = Result("defaultContractorScoring", f, 0, DetTable(det[i]), det[i] = NewDetector,
                     defaultContractorScoring(det[i], f))
  /\ UNCHANGED <<file, writer, det, detOp, cache, req, hist, log, recs>>

ScoreHealthcareProviderCall(i) ==
  /\ out.path = "none"
  /\ \E f \in HealthcareVectors :
       out' = Result("scoreHealthcareProvider", f, 0, DetTable(det[i]), det[i] = NewDetector,
                     scoreHealthcareProvider(det[i], f))
  /\ UNCHANGED <<file, writer, det, detOp, cache, req, hist, log, recs>>

RouteScoreCall ==
  /\ out.path = "none"
  /\ \E f \in ContractorVectors :
       out' = Result("routeScoreContractor", f, 0, ModelThresholds(cache["score"]),
                     cache["score"] = NullModel, routeScoreContractor(f, cache["score"]))
  /\ UNCHANGED <<file, writer, det, detOp, cache, req, hist, log, recs>>

AnalyzeContractCall ==
  /\ out.path = "none"
  /\ \E f \in ContractorVectors, amount \in AwardAmounts :
       out' = Result("analyzeContractWithML", f, amount, ModelThresholds(cache["ma"]),
                     cache["ma"] = NullModel, analyzeContractWithML(amount, f, cache["ma"]))
  /\ UNCHANGED <<file, writer, det, detOp, cache, req, hist, log, recs>>

\* the model artifacts scoring is checked on
ScoreArtifacts == {"none", "trained", "override", "empty"}

ArtifactDoc(a) ==
  CASE a = "trained" -> saveDoc(TrainedSample, 0)
    [] a = "override" -> OverrideDoc
    [] OTHER -> EmptyDoc

InitScore ==
  \E a \in ScoreArtifacts :
    /\ file = IF a = "none" THEN Missing ELSE Json(ArtifactDoc(a))
    /\ det = [i \in DetIds |->
                IF a = "none" THEN NewDetector
                ELSE IF a = "trained" THEN TrainedSample
                ELSE load(NewDetector, ArtifactDoc(a))]
    /\ cache = [r \in Routes |-> IF a = "none" THEN NullModel ELSE Obj(ArtifactDoc(a))]
    /\ writer = WriterIdle
    /\ detOp = [i \in DetIds |-> OpRecord("new", "ok", NewDetector, NoSource)]
    /\ req = [q \in ReqIds |-> IdleRequest]
    /\ hist = NoHistory
    /\ out = NoOut
    /\ log = <<>>
    /\ recs = NoRecords

NextScore ==
  \/ \E i \in DetIds : ScoreContractorCall(i)
  \/ \E i \in DetIds : DefaultContractorScoringCall(i)
  \/ \E i \in DetIds : ScoreHealthcareProviderCall(i)
  \/ RouteScoreCall
  \/ AnalyzeContractCall

SpecScore == InitScore /\ [][NextScore]_vars

(***************************************************************************)
(* Properties of the Score Result                                          *)
(***************************************************************************)
Scored == out.path # "none" /\ ~out.res.raised

\* C1: every scoring operation returns an integer score with 0 <= score <= 100
C1_ScoreInRange == Scored => out.res.score \in 0..100

\* the level a threshold table assigns to a score
LevelOf(th, score) ==
  IF score >= th.highRiskMin THEN "High"
  ELSE IF score >= th.lowRiskMax THEN "Medium" ELSE "Low"

\* C2: the risk level of every result is the level the threshold table in
\* effect (the loaded model's when it has one) assigns to the returned score
C2_LevelMatchesTable ==
  (Scored /\ {"highRiskMin", "lowRiskMax"} \subseteq DOMAIN out.th)
    => out.res.riskLevel = LevelOf(out.th, out.res.score)

\* C3: an untrained default model scores with low_risk_max = 25 and
\* high_risk_min = 50: score >= 50 is High, 25 <= score < 50 is Medium
C3_UntrainedUsesDefaults ==
  (Scored /\ out.fresh)
    => /\ out.res.score >= 50 => out.res.riskLevel = "High"
       /\ (out.res.score >= 25 /\ out.res.score < 50) => out.res.riskLevel = "Medium"

(***************************************************************************)
(* FraudDetector.save: modelData is built, then fs.writeFile opens the     *)
(* file, truncates it and writes the text; the promise rejects when the    *)
(* open or a write fails                                                   *)
(***************************************************************************)
SaveBegin(i) ==
  /\ writer.pc = "idle"
  /\ detOp[i].status # "pending"
  /\ hist.saves < MaxSaves
  /\ writer' = [pc |-> "open", doc |-> saveDoc(det[i], hist.saves + 1), by |-> i]
  /\ detOp' = [detOp EXCEPT ![i] = OpRecord("save", "pending", det[i], NoSource)]
  /\ hist' = [hist EXCEPT !.saves = @ + 1]
  /\ UNCHANGED <<file, det, cache, req, out, log, recs>>

\* the open fails: the file is as it was and save() throws
WriteOpenFail ==
  /\ writer.pc = "open"
  /\ writer' = WriterIdle
  /\ detOp' = [detOp EXCEPT ![writer.by].status = "raised"]
  /\ UNCHANGED <<file, det, cache, req, hist, out, log, recs>>

\* the file is opened with flag 'w': it is empty, then holds a prefix of the text
WriteTruncate ==
  /\ writer.pc = "open"
  /\ writer' = [writer EXCEPT !.pc = "writing"]
  /\ file' = Partial
  /\ hist' = [hist EXCEPT !.fileSrc = NoSource]
  /\ UNCHANGED <<det, detOp, cache, req, out, log, recs>>

WriteFinish ==
  /\ writer.pc = "writing"
  /\ writer' = WriterIdle
  /\ file' = Json(writer.doc)
  /\ detOp' = [detOp EXCEPT ![writer.by].status = "ok"]
  /\ hist' = [hist EXCEPT !.fileSrc = Source(detOp[writer.by].before)]
  /\ UNCHANGED <<det, cache, req, out, log, recs>>

\* a save() that, when a write fails, resets the instance before it throws
WriteFailResetting ==
  /\ writer.pc = "writing"
  /\ writer' = WriterIdle
  /\ detOp' = [detOp EXCEPT ![writer.by].status = "raised"]
  /\ det' = [det EXCEPT ![writer.by] = NewDetector]
  /\ UNCHANGED <<file, cache, req, hist, out, log, recs>>

\* a write fails part-way (disk full): the prefix stays and save() throws
WriteFail ==
  /\ writer.pc = "writing"
  /\ writer' = WriterIdle
  /\ detOp' = [detOp EXCEPT ![writer.by].status = "raised"]
  /\ UNCHANGED <<file, det, cache, req, hist, out, log, recs>>

(***************************************************************************)
(* The serving routes: loadModel and the handlers that call it             *)
(***************************************************************************)
\* loadModel is entered: `if (modelData) return modelData`, else readFile is issued
LoadModelCall(q, r) ==
  /\ req[q].pc = "idle"
  /\ hist.calls < MaxCalls
  /\ hist' = [hist EXCEPT !.calls = @ + 1,
                          !.firstReads[r] = IF cache[r] = NullModel /\ ~hist.completed[r]
                                            THEN @ + 1 ELSE @]
  /\ req' = [req EXCEPT ![q] =
               IF cache[r] # NullModel
               THEN [IdleRequest EXCEPT !.route = r, !.pc = "done", !.ret = cache[r],
                                        !.late = hist.completed[r]]
               ELSE [IdleRequest EXCEPT !.route = r, !.pc = "reading",
                                        !.late = hist.completed[r]]]
  /\ UNCHANGED <<file, writer, det, detOp, cache, out, log, recs>>

\* fs.readFile takes the content the file has now
ReadFile(q) ==
  /\ req[q].pc = "reading"
  /\ req' = [req EXCEPT ![q].pc = "resume", ![q].data = file,
                        ![q].duringSave = (writer.pc = "writing")]
  /\ UNCHANGED <<file, writer, det, detOp, cache, hist, out, log, recs>>

\* after the await: modelData = JSON.parse(data), or the catch block
Resume(q) ==
  /\ req[q].pc = "resume"
  /\ LET r == req[q].route
         parsed == req[q].data.k = "json"
     IN /\ cache' = IF parsed THEN [cache EXCEPT ![r] = Obj(req[q].data.v)] ELSE cache
        /\ req' = [req EXCEPT ![q].pc = "done",
                              ![q].ret = IF parsed THEN Obj(req[q].data.v) ELSE NullModel]
        /\ hist' = [hist EXCEPT !.completed[r] = TRUE]
  /\ UNCHANGED <<file, writer, det, detOp, out, log, recs>>

\* the feature vectors requests are served for
ServedVectors ==
  {[largeAwardRatio |-> Num(100), soleSourceRatio |-> Num(100)],
   [yearOverYearGrowth |-> Num(60), upcoding |-> Num(1)]}

\* a POST handler that drops the cached model once it has scored
RespondScoreDropping(q) ==
  /\ req[q].pc = "done"
  /\ req[q].route = "score"
  /\ \E f \in ServedVectors :
       out' = Result("routeScoreContractor", f, 0, ModelThresholds(req[q].ret),
                     req[q].ret = NullModel, routeScoreContractor(f, req[q].ret))
  /\ req' = [req EXCEPT ![q] = IdleRequest]
  /\ cache' = [cache EXCEPT !["score"] = NullModel]
  /\ UNCHANGED <<file, writer, det, detOp, hist, log, recs>>

\* POST /api/ml/score: scoreContractor(features, model), then the response
RespondScore(q) ==
  /\ req[q].pc = "done"
  /\ req[q].route = "score"
  /\ \E f \in ServedVectors :
       out' = Result("routeScoreContractor", f, 0, ModelThresholds(req[q].ret),
                     req[q].ret = NullModel, routeScoreContractor(f, req[q].ret))
  /\ req' = [req EXCEPT ![q] = IdleRequest]
  /\ UNCHANGED <<file, writer, det, detOp, cache, hist, log, recs>>

\* GET /api/ml/score: the model's status, no scoring
RespondStatus(q) ==
  /\ req[q].pc = "done"
  /\ req[q].route = "score"
  /\ req' = [req EXCEPT ![q] = IdleRequest]
  /\ UNCHANGED <<file, writer, det, detOp, cache, hist, out, log, recs>>

\* POST of the MA-contracts route: analyzeContractWithML on an award
RespondAnalysis(q) ==
  /\ req[q].pc = "done"
  /\ req[q].route = "ma"
  /\ \E f \in ServedVectors, amount \in {150000} :
       out' = Result("analyzeContractWithML", f, amount, ModelThresholds(req[q].ret),
                     req[q].ret = NullModel, analyzeContractWithML(amount, f, req[q].ret))
  /\ req' = [req EXCEPT ![q] = IdleRequest]
  /\ UNCHANGED <<file, writer, det, detOp, cache, hist, log, recs>>

\* what the artifact file may hold when the server starts
InitialFiles == {Missing, Garbage, Json(OverrideDoc)}

\* the server has just started, the training pipeline holds a trained model
Init ==
  /\ file \in InitialFiles
  /\ writer = WriterIdle
  /\ det = [i \in DetIds |-> TrainedSample]
  /\ detOp = [i \in DetIds |-> OpRecord("train", "ok", NewDetector, NoSource)]
  /\ cache = [r \in Routes |-> NullModel]
  /\ req = [q \in ReqIds |-> IdleRequest]
  /\ hist = [NoHistory EXCEPT !.trains = 1]
  /\ out = NoOut
  /\ log = <<>>
  /\ recs = NoRecords

Next ==
  \/ SaveBegin(1)
  \/ WriteOpenFail
  \/ WriteTruncate
  \/ WriteFinish
  \/ WriteFail
  \/ \E q \in ReqIds, r \in Routes : LoadModelCall(q, r)
  \/ \E q \in ReqIds : ReadFile(q)
  \/ \E q \in ReqIds : Resume(q)
  \/ \E q \in ReqIds : RespondScore(q)
  \/ \E q \in ReqIds : RespondStatus(q)
  \/ \E q \in ReqIds : RespondAnalysis(q)

Spec == Init /\ [][Next]_vars

(***************************************************************************)
(* Properties of the serving routes' cache                                 *)
(***************************************************************************)
\* C4: once a route's cached artifact is non-empty, no step changes it
C4_CacheWrittenOnce ==
  [][\A r \in Routes : cache[r] # NullModel => cache'[r] = cache[r]]_vars

\* C5: the loadModel calls made before any load has completed issue at most
\* one read of the artifact file in total
C5_SingleFirstLoad == \A r \in Routes : hist.firstReads[r] <= 1

\* C6: a loadModel call made after the first load attempt on its route has
\* completed (with an artifact or with the missing/corrupt fallback) never
\* reads the file
C6_NoReadAfterFirstLoad ==
  \A q \in ReqIds : req[q].late => req[q].pc \notin {"reading", "resume"}

\* C8: a read of the file that overlaps a save never sees a partly written file
C8_SaveIsAtomic ==
  \A q \in ReqIds : ~(req[q].duringSave /\ req[q].data.k = "partial")

(***************************************************************************)
(* The FraudDetector life cycle: train, save, load, score                  *)
(***************************************************************************)
\* model.train(trainingFeatures, allFraudCases) on the output of
\* extractAllFeatures; train has no await, so it is one step
Train(i) ==
  /\ detOp[i].status # "pending"
  /\ hist.trains < MaxTrains
  /\ \E inp \in TrainingInputs :
       det' = [det EXCEPT ![i] =
                 train(det[i], extractAllFeatures(inp.groups, SampleExclusions), inp.cases)]
  /\ detOp' = [detOp EXCEPT ![i] = OpRecord("train", "ok", det[i], NoSource)]
  /\ hist' = [hist EXCEPT !.trains = @ + 1]
  /\ UNCHANGED <<file, writer, cache, req, out, log, recs>>

\* load(filepath) is called: fs.readFile is issued
DetLoadBegin(i) ==
  /\ detOp[i].status # "pending"
  /\ hist.loads < MaxLoads
  /\ detOp' = [detOp EXCEPT ![i] = OpRecord("load", "pending", det[i], NoSource)]
  /\ hist' = [hist EXCEPT !.loads = @ + 1]
  /\ UNCHANGED <<file, writer, det, cache, req, out, log, recs>>

\* the read and JSON.parse succeed and the five fields are assigned, or one
\* of them throws and load() rejects (there is no try/catch)
DetLoadFinish(i) ==
  /\ detOp[i].op = "load"
  /\ detOp[i].status = "pending"
  /\ IF file.k = "json"
     THEN /\ det' = [det EXCEPT ![i] = load(det[i], file.v)]
          /\ detOp' = [detOp EXCEPT ![i].status = "ok", ![i].src = hist.fileSrc]
     ELSE /\ det' = det
          /\ detOp' = [detOp EXCEPT ![i].status = "raised"]
  /\ hist' = [hist EXCEPT !.foreign = @ \/ (file.k = "json" /\ ~hist.fileSrc.known)]
  /\ UNCHANGED <<file, writer, cache, req, out, log, recs>>

DetScoreContractor(i) ==
  /\ detOp[i].status # "pending"
  /\ \E f \in ServedVectors :
       out' = Result("scoreContractor", f, 0, DetTable(det[i]), det[i] = NewDetector,
                     scoreContractor(det[i], f))
  /\ UNCHANGED <<file, writer, det, detOp, cache, req, hist, log, recs>>

DetScoreHealthcareProvider(i) ==
  /\ detOp[i].status # "pending"
  /\ out' = Result("scoreHealthcareProvider", [hasExclusionHistory |-> Num(1)], 0,
                   DetTable(det[i]), det[i] = NewDetector,
                   scoreHealthcareProvider(det[i], [hasExclusionHistory |-> Num(1)]))
  /\ UNCHANGED <<file, writer, det, detOp, cache, req, hist, log, recs>>

InitDet ==
  /\ file \in InitialFiles \cup {Json(EmptyDoc)}
  /\ writer = WriterIdle
  /\ det = [i \in DetIds |-> NewDetector]
  /\ detOp = [i \in DetIds |-> OpRecord("new", "ok", NewDetector, NoSource)]
  /\ cache = [r \in Routes |-> NullModel]
  /\ req = [q \in ReqIds |-> IdleRequest]
  /\ hist = NoHistory
  /\ out = NoOut
  /\ log = <<>>
  /\ recs = NoRecords

NextDet ==
  \/ \E i \in DetIds : Train(i)
  \/ \E i \in DetIds : SaveBegin(i)
  \/ WriteOpenFail
  \/ WriteTruncate
  \/ WriteFinish
  \/ WriteFail
  \/ \E i \in DetIds : DetLoadBegin(i)
  \/ \E i \in DetIds : DetLoadFinish(i)
  \/ \E i \in DetIds : DetScoreContractor(i)
  \/ \E i \in DetIds : DetScoreHealthcareProvider(i)

SpecDet == InitDet /\ [][NextDet]_vars

(***************************************************************************)
(* Properties of the FraudDetector life cycle                              *)
(***************************************************************************)
\* C7: FraudDetector.load never raises, whatever the file holds, and no score
\* call made afterwards raises
C7_LoadNeverRaises ==
  /\ \A i \in DetIds : detOp[i].op = "load" => detOp[i].status # "raised"
  /\ out.path # "none" => ~out.res.raised

SameFields(a, b, K) ==
  \A k \in K : /\ (k \in DOMAIN a) = (k \in DOMAIN b)
               /\ k \in DOMAIN a => a[k] = b[k]

\* C9: while a save is in progress and after it ended, with success or with a
\* failure, the instance's trained, featureStats, fraudPatterns, thresholds and
\* modelVersion are what they were when save was called
C9_SaveKeepsModel ==
  \A i \in DetIds : detOp[i].op = "save" => SameFields(det[i], detOp[i].before, DetFields)

\* a trained detector whose save failed after the file was truncated
C9_Witness ==
  \E i \in DetIds : /\ detOp[i].op = "save"
                    /\ detOp[i].status = "raised"
                    /\ IsTrained(det[i])
                    /\ file = Partial

\* C10: a detector that loaded the file another, trained, detector saved has
\* featureStats, fraudPatterns, thresholds and trained equal to the saver's
C10_RoundTrip ==
  \A j \in DetIds :
    (/\ detOp[j].op = "load"
     /\ detOp[j].status = "ok"
     /\ detOp[j].before = NewDetector
     /\ detOp[j].src.known
     /\ IsTrained(detOp[j].src.d))
    => SameFields(det[j], detOp[j].src.d,
                  {"featureStats", "fraudPatterns", "thresholds", "trained"})

(***************************************************************************)
(* Properties of the Score Result                                          *)
(***************************************************************************)
HasFactor(res, type) == \E k \in 1..Len(res.factors) : res.factors[k].type = type

\* C11: FraudDetector.scoreContractor emits the factor of every contractor
\* domain rule whose feature is above its cut-off (large awards > 0.3, agency
\* concentration > 0.8, sole source > 0.5, growth > 2.0, high-risk categories
\* > 0.3, defense > 0.7), on a trained detector as on an untrained one
C11_RulesAlwaysFire ==
  (Scored /\ out.path = "scoreContractor")
    => /\ JGt(Get(out.f, "largeAwardRatio"), Num(30))
            => HasFactor(out.res, "LARGE_AWARD_CONCENTRATION")
       /\ JGt(Get(out.f, "agencyConcentration"), Num(80))
            => HasFactor(out.res, "AGENCY_CONCENTRATION")
       /\ JGt(Get(out.f, "soleSourceRatio"), Num(50))
            => HasFactor(out.res, "HIGH_SOLE_SOURCE")
       /\ JGt(Get(out.f, "yearOverYearGrowth"), Num(200))
            => HasFactor(out.res, "RAPID_GROWTH")
       /\ JGt(Get(out.f, "highRiskCategoryRatio"), Num(30))
            => HasFactor(out.res, "HIGH_RISK_CATEGORY")
       /\ JGt(Get(out.f, "defenseRatio"), Num(70))
            => HasFactor(out.res, "DEFENSE_CONCENTRATION")

\* C12: the factors of every Score Result are in descending order of contribution
C12_FactorsDescending ==
  Scored => \A k \in 1..(Len(out.res.factors) - 1) :
              out.res.factors[k].contribution >= out.res.factors[k + 1].contribution

(***************************************************************************)
(* Repeated score calls: each call is logged with its arguments (the path, *)
(* the feature vector, the model: a detector's fields or the cached        *)
(* artifact) and its result, while the training pipeline may save          *)
(***************************************************************************)
MaxLog == 2        \* score calls logged

\* a corpus of two recipients that are mostly sole source (ratios 1.0 and 0.8)
AwardSole == [amount |-> Num(100), agency |-> "DoD", year |-> 2023, marks |-> {"sole source"}]

SkewedInput ==
  [groups |-> <<<<AwardSole>>,
                <<AwardSole, AwardSole, AwardSole, AwardSole, AwardSmall>>>>,
   cases |-> <<>>]

TrainedSkewed ==
  train(NewDetector, extractAllFeatures(SkewedInput.groups, SampleExclusions), SkewedInput.cases)

CallArtifacts == ScoreArtifacts \cup {"skewed"}

CallDoc(a) == IF a = "skewed" THEN saveDoc(TrainedSkewed, 0) ELSE ArtifactDoc(a)

CallVectors ==
  {Compact([soleSourceRatio |-> c, agencyConcentration |-> b]) :
     c \in {Undef, Num(55), Num(100)}, b \in {Undef, Num(85), Num(100)}}

CallHealthcareVectors ==
  {Compact([highComplexityRatio |-> a, hasExclusionHistory |-> x]) :
     a \in {Undef, Num(50), Num(100)}, x \in {Undef, Num(1)}}

\* `clock`: the number of saves begun when the call was made
Call(path, f, model, res) ==
  [path |-> path, f |-> f, model |-> model, res |-> res, clock |-> hist.saves]

CallScoreContractor(i) ==
  /\ Len(log) < MaxLog
  /\ \E f \in CallVectors :
       log' = Append(log, Call("scoreContractor", f, det[i], scoreContractor(det[i], f)))
  /\ UNCHANGED <<file, writer, det, detOp, cache, req, hist, out, recs>>

CallScoreHealthcareProvider(i) ==
  /\ Len(log) < MaxLog
  /\ \E f \in CallHealthcareVectors :
       log' = Append(log, Call("scoreHealthcareProvider", f, det[i],
                               scoreHealthcareProvider(det[i], f)))
  /\ UNCHANGED <<file, writer, det, detOp, cache, req, hist, out, recs>>

CallRouteScore ==
  /\ Len(log) < MaxLog
  /\ \E f \in CallVectors :
       log' = Append(log, Call("routeScoreContractor", f, cache["score"],
                               routeScoreContractor(f, cache["score"])))
  /\ UNCHANGED <<file, writer, det, detOp, cache, req, hist, out, recs>>

CallScoreWithModel ==
  /\ Len(log) < MaxLog
  /\ \E f \in CallVectors :
       log' = Append(log, Call("scoreWithModel", f, cache["ma"],
                               scoreWithModel(f, cache["ma"])))
  /\ UNCHANGED <<file, writer, det, detOp, cache, req, hist, out, recs>>

InitCalls ==
  \E a \in CallArtifacts :
    /\ file = IF a = "none" THEN Missing ELSE Json(CallDoc(a))
    /\ det = [i \in DetIds |->
                IF a = "none" THEN NewDetector ELSE load(NewDetector, CallDoc(a))]
    /\ cache = [r \in Routes |-> IF a = "none" THEN NullModel ELSE Obj(CallDoc(a))]
    /\ writer = WriterIdle
    /\ detOp = [i \in DetIds |-> OpRecord("new", "ok", NewDetector, NoSource)]
    /\ req = [q \in ReqIds |-> IdleRequest]
    /\ hist = NoHistory
    /\ out = NoOut
    /\ log = <<>>
    /\ recs = NoRecords

NextCalls ==
  \/ \E i \in DetIds : CallScoreContractor(i)
  \/ \E i \in DetIds : CallScoreHealthcareProvider(i)
  \/ CallRouteScore
  \/ CallScoreWithModel
  \/ SaveBegin(1)
  \/ WriteOpenFail
  \/ WriteTruncate
  \/ WriteFinish
  \/ WriteFail

SpecCalls == InitCalls /\ [][NextCalls]_vars

\* the ratio features with a rule, and the rule's cut-off in hundredths
RatioCut ==
  [largeAwardRatio |-> 30, agencyConcentration |-> 80, soleSourceRatio |-> 50,
   highRiskCategoryRatio |-> 30, defenseRatio |-> 70, healthcareRatio |-> 50,
   highComplexityRatio |-> 40, pharmaConcentration |-> 70]

\* g is f with only feature k increased, k being above its cut-off in f already
RaisedOnly(f, g, k) ==
  /\ DOMAIN f = DOMAIN g
  /\ k \in DOMAIN f
  /\ f[k].t = "num" /\ g[k].t = "num"
  /\ f[k].n > RatioCut[k]
  /\ g[k].n > f[k].n
  /\ \A j \in DOMAIN f \ {k} : f[j] = g[j]

\* C13: of two calls of one scoring path on one model whose feature vectors
\* differ only in one ratio feature, above its rule threshold in both, the
\* call with the larger value does not return the smaller score
C13_Monotone ==
  \A a, b \in 1..Len(log) :
    \A k \in DOMAIN RatioCut :
      (/\ log[a].path = log[b].path
       /\ log[a].model = log[b].model
       /\ ~log[a].res.raised /\ ~log[b].res.raised
       /\ RaisedOnly(log[a].f, log[b].f, k))
      => log[b].res.score >= log[a].res.score

SameArguments(x, y) == x.path = y.path /\ x.f = y.f /\ x.model = y.model

IsHighRiskServing(a) ==
  a.marks \cap {"consulting", "advisory", "professional services", "it services",
                "software", "support", "sole source"} # {}
IsHealthcare(a) == a.marks \cap {"health", "medical"} # {}

\* extractFeatures of the two routes (the same code in both)
extractFeatures(contracts) ==
  LET n == Len(contracts)
      amounts == Amounts(contracts)
      totalAwarded == SumSeq(amounts)
      ratio(matching) == Num(RoundDiv(100 * Cardinality(matching), n))
  IN IF n = 0 THEN <<>>
     ELSE [totalAwarded |-> Num(totalAwarded),
           avgAward |-> Num(RoundDiv(totalAwarded, n)),
           awardCount |-> Num(n),
           agencyConcentration |-> MaxAgencyShare(contracts),
           yearOverYearGrowth |->
             IF Cardinality(YearsOf(contracts)) >= 2 THEN LastOverPrev(contracts) ELSE Num(100),
           highRiskCategoryRatio |-> ratio({i \in 1..n : IsHighRiskServing(contracts[i])}),
           defenseRatio |-> ratio({i \in 1..n : IsDefense(contracts[i])}),
           healthcareRatio |-> ratio({i \in 1..n : IsHealthcare(contracts[i])}),
           largeAwardRatio |-> ratio({i \in 1..n : amounts[i] * n > 3 * totalAwarded}),
           soleSourceRatio |-> ratio({i \in 1..n : IsSoleSource(contracts[i])})]

\* billingData / openPayments: not given (null), or a list
NoData == [given |-> FALSE, items |-> <<>>]
Data(items) == [given |-> TRUE, items |-> items]

\* getCodeComplexity: 1 without a code, the last digit of an E&M code
\* 99201-99205 / 99211-99215, 3 otherwise
getCodeComplexity(code) ==
  IF code = 0 THEN 1
  ELSE IF code \in 99201..99205 \/ code \in 99211..99215 THEN code % 10
  ELSE 3

\* the keys written when billingData is given; x / 0 is NaN for x = 0
BillingFeatures(items) ==
  LET n == Len(items)
      totalBilled == SumSeq([i \in 1..n |-> items[i].amount])
      levels == [i \in 1..n |-> getCodeComplexity(items[i].code)]
      patients == Cardinality({items[i].patientId : i \in 1..n})
      over(x) == IF n = 0 THEN NaN ELSE Num(RoundDiv(x, n))
  IN [totalBilled |-> Num(totalBilled),
      avgClaim |-> over(totalBilled),
      claimCount |-> Num(n),
      avgCodeComplexity |-> over(100 * SumSeq(levels)),
      highComplexityRatio |-> over(100 * Cardinality({i \in 1..n : levels[i] >= 4})),
      uniqueServiceTypes |-> Num(Cardinality({items[i].serviceType : i \in 1..n})),
      avgServicesPerPatient |-> Num(RoundDiv(100 * n, IF patients = 0 THEN 1 ELSE patients))]

\* the keys written when openPayments is given; Math.max() of nothing is
\* -Infinity, and maxCompanyShare || 0 turns NaN (0 / 0) into 0
PaymentFeatures(items) ==
  LET m == Len(items)
      totalPayments == SumSeq([i \in 1..m |-> items[i].amount])
      byCompany(c) == SumSeq([i \in 1..m |-> IF items[i].company = c THEN items[i].amount ELSE 0])
      top == MaxSeq([i \in 1..m |-> byCompany(items[i].company)])
  IN [totalPharmaPayments |-> Num(totalPayments),
      pharmaPaymentCount |-> Num(m),
      uniquePharmaCompanies |-> Num(Cardinality({items[i].company : i \in 1..m})),
      pharmaConcentration |->
        IF m = 0 THEN NegInf
        ELSE IF totalPayments = 0 THEN Num(0)
        ELSE Num(RoundDiv(100 * top, totalPayments)),
      consultingPaymentRatio |->
        IF m = 0 THEN NaN
        ELSE Num(RoundDiv(100 * Cardinality({i \in 1..m :
                    items[i].type \in {"consulting", "speaking"}}), m))]

extractHealthcareFeatures(provider, billingData, openPayments) ==
  (IF billingData.given THEN BillingFeatures(billingData.items) ELSE <<>>)
  @@ (IF openPayments.given THEN PaymentFeatures(openPayments.items) ELSE <<>>)
  @@ [hasExclusionHistory |-> Num(IF provider.excludedPreviously THEN 1 ELSE 0),
      relatedPartyExcluded |-> Num(IF provider.relatedPartyExcluded THEN 1 ELSE 0)]

(***************************************************************************)
(* Extraction calls: the training-path extractors on their own, and the    *)
(* routes that extract a recipient's features and score them               *)
(***************************************************************************)
MaxAwards == 2     \* awards of one recipient
MaxBilling == 1    \* billing records of one provider
MaxPayments == 2   \* payment records of one provider

AwardPlain(amount, agency) ==
  [amount |-> Num(amount), agency |-> agency, year |-> 2023, marks |-> {}]

\* ten awards, nine of $50,000 and one of $2,000,000, nine from one agency
ScenarioA == [i \in 1..10 |-> IF i = 10 THEN AwardPlain(2000, "DoD") ELSE AwardPlain(50, "GSA")]

AwardLists == SeqsUpTo({AwardSmall, AwardLarge, AwardZero}, MaxAwards) \cup {ScenarioA}

BillingRecords ==
  {[amount |-> 100, code |-> 99215, serviceType |-> "visit", patientId |-> 1],
   [amount |-> 0, code |-> 0, serviceType |-> "lab", patientId |-> 2]}

PaymentRecords ==
  {[amount |-> 60000, company |-> "A", type |-> "consulting"],
   [amount |-> 0, company |-> "B", type |-> "food"]}

BillingInputs == {NoData} \cup {Data(s) : s \in SeqsUpTo(BillingRecords, MaxBilling)}
PaymentInputs == {NoData} \cup {Data(s) : s \in SeqsUpTo(PaymentRecords, MaxPayments)}
Providers == [excludedPreviously : BOOLEAN, relatedPartyExcluded : BOOLEAN]

ContractorRecords(awards) == [kind |-> "contractor", awards |-> awards]
HealthcareRecords(provider, billingData, openPayments) ==
  [kind |-> "healthcare", provider |-> provider, billing |-> billingData,
   payments |-> openPayments]

\* an extraction on its own: the vector is kept in out.f, with no score
Extracted(path, f) == Result(path, f, 0, <<>>, FALSE, NoOut.res)

ExtractContractorFeaturesCall ==
  \E awards \in AwardLists :
    /\ recs' = ContractorRecords(awards)
    /\ out' = Extracted("extractContractorFeatures", extractContractorFeatures(awards))
    /\ UNCHANGED <<file, writer, det, detOp, cache, req, hist, log>>

ExtractHealthcareFeaturesCall ==
  \E provider \in Providers, billingData \in BillingInputs, openPayments \in PaymentInputs :
    /\ recs' = HealthcareRecords(provider, billingData, openPayments)
    /\ out' = Extracted("extractHealthcareFeatures",
                        extractHealthcareFeatures(provider, billingData, openPayments))
    /\ UNCHANGED <<file, writer, det, detOp, cache, req, hist, log>>

\* validateModel: model.scoreContractor(extractContractorFeatures(..., awards))
ValidateCall(i) ==
  \E awards \in AwardLists \ {<<>>} :
    LET f == extractContractorFeatures(awards) IN
    /\ recs' = ContractorRecords(awards)
    /\ out' = Result("validateModel", f, 0, DetTable(det[i]), det[i] = NewDetector,
                     scoreContractor(det[i], f))
    /\ UNCHANGED <<file, writer, det, detOp, cache, req, hist, log>>

\* POST /api/ml/score with contracts: extractFeatures, then scoreContractor
PostContracts ==
  \E contracts \in AwardLists :
    LET f == extractFeatures(contracts) IN
    /\ recs' = ContractorRecords(contracts)
    /\ out' = Result("postContracts", f, 0, ModelThresholds(cache["score"]),
                     cache["score"] = NullModel, routeScoreContractor(f, cache["score"]))
    /\ UNCHANGED <<file, writer, det, detOp, cache, req, hist, log>>

InitExtract ==
  \E a \in {"none", "trained"} :
    /\ file = IF a = "none" THEN Missing ELSE Json(ArtifactDoc(a))
    /\ det = [i \in DetIds |-> IF a = "none" THEN NewDetector ELSE TrainedSample]
    /\ cache = [r \in Routes |-> IF a = "none" THEN NullModel ELSE Obj(ArtifactDoc(a))]
    /\ writer = WriterIdle
    /\ detOp = [i \in DetIds |-> OpRecord("new", "ok", NewDetector, NoSource)]
    /\ req = [q \in ReqIds |-> IdleRequest]
    /\ hist = NoHistory
    /\ out = NoOut
    /\ log = <<>>
    /\ recs = NoRecords

NextExtract ==
  \/ ExtractContractorFeaturesCall
  \/ ExtractHealthcareFeaturesCall
  \/ \E i \in DetIds : ValidateCall(i)
  \/ PostContracts

SpecExtract == InitExtract /\ [][NextExtract]_vars

\* C15: extraction on an empty record collection (no awards; no billing and no
\* payment records) returns a Feature Vector with no keys
C15_EmptyInEmptyOut ==
  /\ (recs.kind = "contractor" /\ recs.awards = <<>>) => DOMAIN out.f = {}
  /\ (recs.kind = "healthcare" /\ recs.billing.items = <<>> /\ recs.payments.items = <<>>)
       => DOMAIN out.f = {}

\* C16: a score call on the empty feature vector returns score 0, risk level
\* Low and a confidence of at most 0.1, on every scoring path and model
C16_EmptyVectorScore ==
  \A a \in 1..Len(log) :
    (DOMAIN log[a].f = {} /\ ~log[a].res.raised)
      => /\ log[a].res.score = 0
         /\ log[a].res.riskLevel = "Low"
         /\ log[a].res.confidence <= 10

\* C17: a score call on the untrained default model (a new FraudDetector, or
\* a route with no artifact loaded) does not raise and returns no
\* STATISTICAL_ANOMALY factor
C17_UntrainedNoAnomaly ==
  (out.path # "none" /\ out.fresh)
    => ~out.res.raised /\ ~HasFactor(out.res, "STATISTICAL_ANOMALY")

\* the MA-contracts scorer, which has a z-score block, ran with no artifact on
\* a vector that fires several rules
C17_Witness ==
  /\ out.path = "analyzeContractWithML"
  /\ out.fresh
  /\ cache["ma"] = NullModel
  /\ "soleSourceRatio" \in DOMAIN out.f
  /\ Len(out.res.factors) >= 2

\* C18: ten awards, nine of $50,000 and one of $2,000,000, nine of them from
\* one agency, posted to /api/ml/score: the result holds a
\* LARGE_AWARD_CONCENTRATION and an AGENCY_CONCENTRATION factor and its score
\* is at least 25
C18_ScenarioA ==
  (out.path = "postContracts" /\ recs = ContractorRecords(ScenarioA))
    => /\ ~out.res.raised
       /\ HasFactor(out.res, "LARGE_AWARD_CONCENTRATION")
       /\ HasFactor(out.res, "AGENCY_CONCENTRATION")
       /\ out.res.score >= 25

\* C19: a healthcare provider whose only feature is hasExclusionHistory = true,
\* scored by a detector that is untrained or trained with the default
\* thresholds, gets a score of at least 30, exactly one factor, a
\* PRIOR_EXCLUSION of contribution 30, and the risk level Medium
C19_ScenarioB ==
  ( /\ out.path = "scoreHealthcareProvider"
    /\ out.f = [hasExclusionHistory |-> Num(1)]
    /\ (out.fresh \/ out.th = TrainedSample.thresholds) )
    => /\ ~out.res.raised
       /\ out.res.score >= 30
       /\ Len(out.res.factors) = 1
       /\ out.res.factors[1].type = "PRIOR_EXCLUSION"
       /\ out.res.factors[1].contribution = 30
       /\ out.res.riskLevel = "Medium"


(***************************************************************************)
(* Per-award analysis: the MA-contracts server action (analyzeContractRisk)*)
(* and the ML route (analyzeContractWithML)                                *)
(***************************************************************************)
\* a USASpending result row: 'Award Amount' in thousands of dollars,
\* 'Recipient Name', and the keywords its description and agency contain
Contract(amount, recipient, marks) ==
  [amount |-> amount, recipient |-> recipient, marks |-> marks]

\* the factors of analyzeContractRisk carry a type and a severity only
RiskFactor(type, severity) == [type |-> type, severity |-> severity]

\* highRiskKeywords of analyzeContractRisk
ActionHighRiskKeywords ==
  {"sole source", "emergency", "urgent", "no bid", "consulting", "advisory",
   "professional services", "it services", "software", "support services"}

\* the riskAnalysis object analyzeContractRisk attaches to the contract
analyzeContractRisk(contract, allContracts) ==
  LET amount == contract.amount
      veryLarge == amount > 10000
      extremelyLarge == amount > 100000
      sameRecipientAwards ==
        {i \in 1..Len(allContracts) : allContracts[i].recipient = contract.recipient}
      multiple == Cardinality(sameRecipientAwards) >= 3
      matchedKeywords == contract.marks \cap ActionHighRiskKeywords
      defense == contract.marks \cap {"defense", "army", "navy", "air force"} # {}
      healthcare == contract.marks \cap {"health", "medical"} # {}
      riskFactors ==
        (IF veryLarge THEN <<RiskFactor("VERY_LARGE_AWARD", "medium")>> ELSE <<>>)
        \o (IF extremelyLarge THEN <<RiskFactor("EXTREMELY_LARGE_AWARD", "high")>> ELSE <<>>)
        \o (IF multiple THEN <<RiskFactor("MULTIPLE_AWARDS", "low")>> ELSE <<>>)
        \o (IF matchedKeywords # {} THEN <<RiskFactor("HIGH_RISK_CATEGORY", "low")>> ELSE <<>>)
        \o (IF defense THEN <<RiskFactor("DEFENSE_CONTRACT", "low")>> ELSE <<>>)
        \o (IF healthcare THEN <<RiskFactor("HEALTHCARE_CONTRACT", "medium")>> ELSE <<>>)
      riskScore ==
        (IF veryLarge THEN 10 ELSE 0) + (IF extremelyLarge THEN 20 ELSE 0)
        + (IF multiple THEN 5 ELSE 0) + 5 * Cardinality(matchedKeywords)
        + (IF defense THEN 5 ELSE 0) + (IF healthcare THEN 10 ELSE 0)
      riskLevel == IF riskScore >= 30 THEN "High" ELSE IF riskScore >= 15 THEN "Medium" ELSE "Low"
  IN [raised |-> FALSE, score |-> Min2(riskScore, 100), riskLevel |-> riskLevel,
      factors |-> riskFactors]

\* the most result rows one fetch is analysed with
MaxResults == 3

ContractRows ==
  {Contract(5000, "Acme", {}),
   Contract(50000, "Acme", {"consulting", "software", "health"}),
   Contract(150000, "Acme", {}),
   Contract(150000, "Beta", {"defense", "sole source"})}

ResultLists == SeqsUpTo(ContractRows, MaxResults) \ {<<>>}

FetchedRecords(contract, results) ==
  [kind |-> "contracts", contract |-> contract, results |-> results]

\* getRecentMAContracts: results.map(contract => analyzeContractRisk(contract, results))
AnalyzeContractRiskCall ==
  /\ out.path = "none"
  /\ \E results \in ResultLists : \E k \in 1..Len(results) :
       /\ recs' = FetchedRecords(results[k], results)
       /\ out' = Result("analyzeContractRisk", <<>>, results[k].amount, <<>>, FALSE,
                        analyzeContractRisk(results[k], results))
  /\ UNCHANGED <<file, writer, det, detOp, cache, req, hist, log>>

NextAward ==
  \/ AnalyzeContractRiskCall
  \/ AnalyzeContractCall

SpecAward == InitScore /\ [][NextAward]_vars

\* the factors a per-award analysis adds for the absolute amount
Escalators(res) ==
  {k \in 1..Len(res.factors) :
     res.factors[k].type \in {"VERY_LARGE_AWARD", "EXTREMELY_LARGE_AWARD"}}

\* the score the same analysis gives the award without looking at its amount
RatioBasedScore ==
  IF out.path = "analyzeContractRisk"
  THEN analyzeContractRisk([recs.contract EXCEPT !.amount = 0], recs.results).score
  ELSE scoreWithModel(out.f, cache["ma"]).score

\* C20: per-award analysis of an award above $100,000,000 adds exactly one
\* absolute-amount escalator, and the award's score is the ratio-based score
\* plus exactly 20, whatever ratio-based factors fired
C20_ScenarioC ==
  (out.path \in {"analyzeContractRisk", "analyzeContractWithML"} /\ out.amount > 100000)
    => /\ ~out.res.raised
       /\ Cardinality(Escalators(out.res)) = 1
       /\ out.res.score = RatioBasedScore + 20


C22_FiniteFeatures ==
  (out.path \in {"extractContractorFeatures", "extractHealthcareFeatures"})
    => \A k \in DOMAIN out.f : out.f[k].t = "num"


(***************************************************************************)
(* Training on labeled cases, then scoring with what was learned           *)
(***************************************************************************)
\* the most labeled cases one training run is given
MaxCaseList == 2

\* indicator phrases that are their own feature key (lower case, no spaces)
Indicators21 ==
  <<"ind_01", "ind_02", "ind_03", "ind_04", "ind_05", "ind_06", "ind_07",
    "ind_08", "ind_09", "ind_10", "ind_11", "ind_12", "ind_13", "ind_14",
    "ind_15", "ind_16", "ind_17", "ind_18", "ind_19", "ind_20", "ind_21">>

\* labeled cases: the two of the sample, one with 21 indicators, one that
\* repeats the last two of them, one with no indicators
CasePool ==
  FraudCases \cup
  {[fraud_type |-> <<"kickbacks">>, amount |-> 300, indicators |-> Indicators21],
   [industry |-> "defense", amount |-> 100, indicators |-> <<"ind_21", "ind_20">>],
   [fraud_type |-> <<"kickbacks">>, industry |-> "healthcare"]}

CaseLists == SeqsUpTo(CasePool, MaxCaseList)

TrainingRecords(i, cases) == [kind |-> "training", by |-> i, cases |-> cases]

\* model.train(trainingData, knownFraudCases) of the training script
TrainCall(i) ==
  /\ hist.trains < MaxTrains
  /\ \E groups \in SeqsUpTo(AwardGroups, MaxRecipients), cases \in CaseLists :
       /\ det' = [det EXCEPT ![i] =
                    train(det[i], extractAllFeatures(groups, SampleExclusions), cases)]
       /\ recs' = TrainingRecords(i, cases)
  /\ detOp' = [detOp EXCEPT ![i] = OpRecord("train", "ok", det[i], NoSource)]
  /\ hist' = [hist EXCEPT !.trains = @ + 1]
  /\ UNCHANGED <<file, writer, cache, req, out, log>>

\* vectors that name learned indicators as features
PatternVectors ==
  {[ind_01 |-> Num(100)], [ind_06 |-> Num(100)], [ind_21 |-> Num(100)],
   [ind_01 |-> Num(30)], [upcoding |-> Num(1), ind_20 |-> Num(100)],
   [ind_01 |-> Num(100), ind_02 |-> Num(100), ind_03 |-> Num(100), ind_04 |-> Num(100),
    ind_05 |-> Num(100), ind_06 |-> Num(100), ind_07 |-> Num(100)]}

\* the detector that was trained scores a vector
TrainedScoreContractor(i) ==
  /\ out.path = "none"
  /\ recs.kind = "training" /\ recs.by = i
  /\ \E f \in PatternVectors :
       out' = Result("scoreContractor", f, 0, DetTable(det[i]), FALSE, scoreContractor(det[i], f))
  /\ UNCHANGED <<file, writer, det, detOp, cache, req, hist, log, recs>>

\* /api/ml/score scores a vector with the artifact that detector saves
TrainedRouteScore(i) ==
  /\ out.path = "none"
  /\ recs.kind = "training" /\ recs.by = i
  /\ \E f \in PatternVectors :
       LET m == Obj(saveDoc(det[i], 0)) IN
       out' = Result("routeScoreContractor", f, 0, ModelThresholds(m), FALSE,
                     routeScoreContractor(f, m))
  /\ UNCHANGED <<file, writer, det, detOp, cache, req, hist, log, recs>>

\* the MA-contracts route does the same
TrainedScoreWithModel(i) ==
  /\ out.path = "none"
  /\ recs.kind = "training" /\ recs.by = i
  /\ \E f \in PatternVectors :
       LET m == Obj(saveDoc(det[i], 0)) IN
       out' = Result("scoreWithModel", f, 0, ModelThresholds(m), FALSE, scoreWithModel(f, m))
  /\ UNCHANGED <<file, writer, det, detOp, cache, req, hist, log, recs>>

InitTrain ==
  /\ file = Missing
  /\ writer = WriterIdle
  /\ det = [i \in DetIds |-> NewDetector]
  /\ detOp = [i \in DetIds |-> OpRecord("new", "ok", NewDetector, NoSource)]
  /\ cache = [r \in Routes |-> NullModel]
  /\ req = [q \in ReqIds |-> IdleRequest]
  /\ hist = NoHistory
  /\ out = NoOut
  /\ log = <<>>
  /\ recs = NoRecords

NextTrain ==
  \/ \E i \in DetIds : TrainCall(i)
  \/ \E i \in DetIds : TrainedScoreContractor(i)
  \/ \E i \in DetIds : TrainedRouteScore(i)
  \/ \E i \in DetIds : TrainedScoreWithModel(i)

SpecTrain == InitTrain /\ [][NextTrain]_vars

\* C23: training with an empty list of labeled cases completes, and the
\* detector is then trained with an empty ranked pattern list
C23_TrainWithoutCases ==
  (recs.kind = "training" /\ recs.cases = <<>>)
    => /\ detOp[recs.by].op = "train" /\ detOp[recs.by].status = "ok"
       /\ IsTrained(det[recs.by])
       /\ det[recs.by].fraudPatterns.commonFactors = <<>>

\* a detector was trained on recipients' awards and no labeled cases
C23_Witness ==
  /\ recs.kind = "training" /\ recs.cases = <<>>
  /\ IsTrained(det[recs.by])
  /\ DOMAIN det[recs.by].featureStats # {}


\* the anomaly strategy as stated: |z| = ExpZNum / ExpZDen with the standard
\* deviation floored to 1 (1 is OneNum(k) / OneDen(k) in the unit of k)
ExpZNum(k, v, st) == Abs(v.n - st.mean.n) * OneDen(k)
ExpZDen(k, st) ==
  IF st.std.n * OneDen(k) >= OneNum(k) THEN st.std.n * OneDen(k) ELSE OneNum(k)

\* the features the stated strategy flags, for a profile and a cut-off in hundredths
ExpectedAnomalies(f, stats, cutoff) ==
  {k \in DOMAIN f \cap DOMAIN stats :
     /\ f[k].t = "num"
     /\ ExpZNum(k, f[k], stats[k]) * 100 > cutoff * ExpZDen(k, stats[k])}

\* C24: FraudDetector.scoreContractor on a trained detector returns one
\* STATISTICAL_ANOMALY factor for each numeric feature in vector and profile
\* whose |z| = |value - mean| / max(std, 1) exceeds the z-score cut-off, with
\* contribution min(round(|z| * 5), 15) and severity high iff |z| > 3, and
\* no other STATISTICAL_ANOMALY factor
C24_AnomalyStrategy ==
  ( /\ out.path = "scoreContractor" /\ ~out.fresh /\ ~out.res.raised
    /\ IsTrained(det[1]) /\ Has(det[1], "featureStats")
    /\ Thr(out.th, "zScoreThreshold").t = "num" )
    => LET stats == det[1].featureStats
           exp == ExpectedAnomalies(out.f, stats, Thr(out.th, "zScoreThreshold").n)
           got == {p \in 1..Len(out.res.factors) :
                     out.res.factors[p].type = "STATISTICAL_ANOMALY"}
       IN \A c \in 0..15, sev \in {"high", "medium"} :
            Cardinality({p \in got : /\ out.res.factors[p].contribution = c
                                     /\ out.res.factors[p].severity = sev})
            = Cardinality({k \in exp :
                 /\ Min2(RoundDiv(ExpZNum(k, out.f[k], stats[k]) * 5,
                                  ExpZDen(k, stats[k])), 15) = c
                 /\ (ExpZNum(k, out.f[k], stats[k]) > 3 * ExpZDen(k, stats[k]))
                      <=> (sev = "high")})


\* how often an indicator phrase occurs in the labeled cases, and where first
\* (case number * 100 + position in the case)
Occurrences(cases, x) ==
  {<<c, p>> \in (1..Len(cases)) \X (1..21) :
     /\ Has(cases[c], "indicators")
     /\ p <= Len(cases[c].indicators)
     /\ cases[c].indicators[p] = x}
FirstAt(cases, x) ==
  CHOOSE n \in {o[1] * 100 + o[2] : o \in Occurrences(cases, x)} :
    \A o \in Occurrences(cases, x) : n <= o[1] * 100 + o[2]
IndicatorsIn(cases) ==
  UNION {{cases[c].indicators[p] : p \in 1..Len(cases[c].indicators)} :
           c \in {c \in 1..Len(cases) : Has(cases[c], "indicators")}}

\* C25: after training, commonFactors has at most 20 entries, one per
\* indicator, sorted by count descending with ties in first-seen order; it
\* holds the most frequent indicators, and each entry's count is the
\* indicator's frequency and its weight is count / number of cases
C25_RankedPatterns ==
  (recs.kind = "training" /\ IsTrained(det[recs.by]))
    => LET cf == det[recs.by].fraudPatterns.commonFactors
           cases == recs.cases
           all == IndicatorsIn(cases)
           kept == {cf[a].indicator : a \in 1..Len(cf)}
       IN /\ Len(cf) = Min2(Cardinality(all), 20)
          /\ kept \subseteq all
          /\ Cardinality(kept) = Len(cf)
          /\ \A a \in 1..Len(cf) :
               /\ cf[a].count = Cardinality(Occurrences(cases, cf[a].indicator))
               /\ cf[a].weight = [num |-> cf[a].count, den |-> Len(cases)]
               /\ cf[a].count > 0
          /\ \A a, b \in 1..Len(cf) :
               a < b => \/ cf[a].count > cf[b].count
                        \/ /\ cf[a].count = cf[b].count
                           /\ FirstAt(cases, cf[a].indicator) < FirstAt(cases, cf[b].indicator)
          /\ \A x \in all \ kept : \A a \in 1..Len(cf) :
               \/ Cardinality(Occurrences(cases, x)) < cf[a].count
               \/ /\ Cardinality(Occurrences(cases, x)) = cf[a].count
                  /\ FirstAt(cases, cf[a].indicator) < FirstAt(cases, x)

\* 21 indicators were seen, 20 are kept, and the ranking moved a later one ahead
C25_Witness ==
  /\ recs.kind = "training" /\ IsTrained(det[recs.by])
  /\ Cardinality(IndicatorsIn(recs.cases)) > 20
  /\ Len(det[recs.by].fraudPatterns.commonFactors) = 20
  /\ det[recs.by].fraudPatterns.commonFactors[1].indicator = "ind_20"
  /\ det[recs.by].fraudPatterns.commonFactors[1].count = 2


\* the retained pattern entries a vector matches: the entry's indicator,
\* lower-cased with underscores, names a feature with a truthy positive value
MatchedEntries(cf, f) ==
  {a \in 1..Len(cf) :
     LET v == Get(f, IndicatorKey(cf[a].indicator)) IN v.t = "num" /\ v.n > 0}

\* C26: the result of a score call with a trained model holds exactly one
\* pattern-match factor for each retained pattern entry (all of them, up to
\* 20) the vector matches, with contribution round(weight * 20) in
\* FraudDetector.scoreContractor and round(weight * 15) in the two routes,
\* and severity high iff weight > 0.3
C26_EveryPatternMatched ==
  ( /\ out.path \in {"scoreContractor", "routeScoreContractor", "scoreWithModel"}
    /\ ~out.res.raised
    /\ recs.kind = "training" /\ IsTrained(det[recs.by]) )
    => LET cf == det[recs.by].fraudPatterns.commonFactors
           mult == IF out.path = "scoreContractor" THEN 20 ELSE 15
           exp == MatchedEntries(cf, out.f)
           got == {p \in 1..Len(out.res.factors) :
                     out.res.factors[p].type \in {"PATTERN_MATCH", "FRAUD_PATTERN_MATCH"}}
       IN \A c \in 0..20, sev \in {"high", "medium"} :
            Cardinality({p \in got : /\ out.res.factors[p].contribution = c
                                     /\ out.res.factors[p].severity = sev})
            = Cardinality({a \in exp :
                 /\ RoundDiv(cf[a].weight.num * mult, cf[a].weight.den) = c
                 /\ (10 * cf[a].weight.num > 3 * cf[a].weight.den) <=> (sev = "high")})


\* the trained flag of the model a score call used
TrainedFlagUsed ==
  IF out.path \in {"scoreContractor", "defaultContractorScoring", "scoreHealthcareProvider"}
  THEN IsTrained(det[1])
  ELSE LET m == cache[IF out.path = "routeScoreContractor" THEN "score" ELSE "ma"]
       IN m.k = "obj" /\ Has(m.v, "trained") /\ m.v.trained

\* C27: on every scoring path the confidence (in hundredths) is
\* round(base * min(present features / 10, 1), 2), base 0.85 for a trained
\* model and 0.70 otherwise
C27_ConfidenceFormula ==
  Scored =>
    out.res.confidence
      = RoundDiv((IF TrainedFlagUsed THEN 85 ELSE 70) * Min2(PresentCount(out.f), 10), 10)


\* C28: the year-over-year growth of extractContractorFeatures is 1.0 when the
\* awards fall in fewer than two distinct years, and it is the growth the
\* serving extractFeatures returns for the same awards
C28_GrowthAgrees ==
  (out.path = "extractContractorFeatures" /\ recs.kind = "contractor")
    => LET g == Get(out.f, "yearOverYearGrowth") IN
       /\ Cardinality(YearsOf(recs.awards)) < 2 => g = Num(100)
       /\ recs.awards # <<>> => g = extractFeatures(recs.awards).yearOverYearGrowth


RECURSIVE ContributionSum(_)
ContributionSum(factors) ==
  IF factors = <<>> THEN 0
  ELSE Head(factors).contribution + ContributionSum(Tail(factors))

\* C29: on every model-based scoring path the score is
\* min(100, sum of the contributions of the returned factors)
C29_ScoreIsFactorSum ==
  Scored => out.res.score = Min2(100, ContributionSum(out.res.factors))

\* per-award analysis returned several ratio factors and an escalator whose
\* contributions add up to more than 100
C29_Witness ==
  /\ out.path = "analyzeContractWithML"
  /\ ~out.res.raised
  /\ Len(out.res.factors) >= 3
  /\ HasFactor(out.res, "EXTREMELY_LARGE_AWARD")
  /\ ContributionSum(out.res.factors) > 100
  /\ out.res.score = 100


\* the profile and pattern set of every single train call, as train leaves
\* them in memory and as a save and a load bring them back
SingleTrainOutcomes ==
  UNION {LET t == train(NewDetector, extractAllFeatures(inp.groups, SampleExclusions),
                        inp.cases)
         IN {<<t.featureStats, t.fraudPatterns>>,
             <<JsonStats(t.featureStats), JsonPatterns(t.fraudPatterns)>>} :
         inp \in TrainingInputs}

\* C30: as long as every load has read a file that save wrote, a detector
\* whose trained flag is true has a threshold table with lowRiskMax,
\* highRiskMin and zScoreThreshold defined (never the constructor's empty
\* table) and a profile and pattern set that one train call produced
C30_TrainedIsComplete ==
  ~hist.foreign =>
    \A i \in DetIds :
      IsTrained(det[i]) =>
        /\ Has(det[i], "thresholds")
        /\ {"lowRiskMax", "highRiskMin", "zScoreThreshold"} \subseteq DOMAIN det[i].thresholds
        /\ \A k \in {"lowRiskMax", "highRiskMin", "zScoreThreshold"} :
             det[i].thresholds[k] \in Nat
        /\ Has(det[i], "featureStats") /\ Has(det[i], "fraudPatterns")
        /\ <<det[i].featureStats, det[i].fraudPatterns>> \in SingleTrainOutcomes

\* a new detector loaded the file a trained detector saved
C30_Witness ==
  \E j \in DetIds :
    /\ detOp[j].op = "load" /\ detOp[j].status = "ok"
    /\ detOp[j].before = NewDetector
    /\ detOp[j].src.known
    /\ IsTrained(det[j])
    /\ ~hist.foreign

====
